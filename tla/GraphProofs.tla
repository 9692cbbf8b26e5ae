---------------------------- MODULE GraphProofs ----------------------------
(***************************************************************************)
(* Proofs about the graph that the middle layer builds: no assert fails, a *)
(* task that was released is not changed, and creates, joins and barriers  *)
(* order the tasks of the threads, for any kinds of programs.              *)
(***************************************************************************)
EXTENDS MiddleProofs

-----------------------------------------------------------------------------
(***************************************************************************)
(* What the runtime's steps keep besides Recorded: how the events of a     *)
(* buffer follow each other, and when the threads came to the barrier.     *)
(***************************************************************************)

\* An enter is followed by a leave in its own buffer, at once, and a leave comes after one.
Paired(s, i, inside) ==
    /\ s[i].kind = "enter" => IF i < Len(s) THEN s[i + 1].kind = "leave" ELSE inside
    /\ s[i].kind = "leave" => i > 1 /\ s[i - 1].kind = "enter"

\* An exit is the last event of the last buffer of its thread, and does not come right
\* after a join; the other buffers end with a block.
Ending(b, i) ==
    LET c == file[b].ctid
        s == file[b].events
    IN  /\ s[i].kind = "exit" =>
              /\ i = Len(s) /\ life[c] = "exited" /\ s[i].other = creator[c]
              /\ \A d \in BuffersOf(c) : d <= b
              /\ c # 0 /\ i > 1 /\ ~ReturnsAfterJoin => s[i - 1].kind # "join"
        /\ i = Len(s) => s[i].kind \in {"exit", "block"}

Chunks ==
    /\ \A c \in Context :
          /\ \A i \in 1 .. Len(buffer[c]) :
                Paired(buffer[c], i, life[c] = "barrier") /\ buffer[c][i].kind # "exit"
          /\ life[c] = "barrier" => LastKind(c) = "enter"
    /\ \A b \in 1 .. Len(file) : \A i \in 1 .. Len(file[b].events) :
          Paired(file[b].events, i, FALSE) /\ Ending(b, i)

\* A thread is created and joined by one other, and joined once.
Relatives ==
    /\ children \in [Context -> SUBSET Context]
    /\ \A c \in Context : \A d \in children[c] :
          creator[d] = c /\ d # c /\ d # 0 /\ life[d] # "off"
    /\ \A s \in Spot : At(s).kind \in {"create", "join"} =>
          LET d == At(s).other
          IN  creator[d] = Owner(s) /\ d # Owner(s) /\ d # 0 /\ life[d] # "off"
    /\ \A s \in Spot : At(s).kind = "join" => At(s).other \notin children[Owner(s)]
    /\ \A s, t \in Spot :
          /\ At(s).kind = "join" /\ At(t).kind = "join" /\ At(s).other = At(t).other
          => s = t

\* The numbers of the enters of a thread.
EnterNums(d) == {At(s).num : s \in {s \in Spot : Owner(s) = d /\ At(s).kind = "enter"}}
Below(d, n)  == {k \in EnterNums(d) : k < n}

Arrivals ==
    /\ arrived \in [Context -> Nat]
    /\ \A d \in Context :
          /\ IsFiniteSet(EnterNums(d)) /\ arrived[d] = Cardinality(EnterNums(d))
          /\ EnterNums(d) # {} => d \in plan.party

\* When a thread left the barrier all had come to it as often as the thread itself.
Met ==
    \A s \in Spot : At(s).kind = "leave" =>
        \A d \in plan.party :
            Cardinality(Below(d, At(s).num)) >= Cardinality(Below(Owner(s), At(s).num))

Story == Chunks /\ Relatives /\ Arrivals /\ Met

-----------------------------------------------------------------------------
(***************************************************************************)
(* Where the middle layer is in the trace.                                 *)
(***************************************************************************)

Done(p) == Nth(p) <= Dealt(Ctid(p))

Begun(c)  == \E p \in PlacesOf(c) : EventAt(p).kind = "start" /\ Done(p)
Exited(c) == \E p \in PlacesOf(c) : EventAt(p).kind = "exit" /\ Done(p)
Joined(c) == \E p \in Place : EventAt(p).kind = "join" /\ EventAt(p).other = c /\ Done(p)

\* What a thread has done last is of kind k.
Latest(c, k) ==
    \E p \in PlacesOf(c) :
        /\ EventAt(p).kind = k /\ Done(p)
        /\ \A q \in PlacesOf(c) : q[2] # 0 /\ Done(q) => Nth(q) <= Nth(p)

\* Those whose last task may still change, and those of whom it was released.
Gone  == {c \in Context : Exited(c) /\ Joined(c)}
Alive == {c \in Context : c = 0 \/ Begun(c)} \ Gone

\* The number of the next enter or leave that is to be dealt with.
Turn ==
    IF pc = "main" /\ event.kind \in {"enter", "leave"} THEN list.barrierNum - 1
    ELSE list.barrierNum

-----------------------------------------------------------------------------
(***************************************************************************)
(* The graph.                                                              *)
(***************************************************************************)
Types == {"basic_blocks", "create", "sync", "wait", "join", "barrier"}

GraphFields == {"tasks", "held", "queued", "creators", "joins", "exited", "owner", "entry",
                "exits", "failed"}

IsGraph(g) ==
    /\ g = [f \in GraphFields |-> g[f]]
    /\ g.tasks \in [DOMAIN g.tasks -> [type : Types, pred : SUBSET TaskId, succ : SUBSET TaskId]]
    /\ DOMAIN g.tasks \subseteq TaskId
    /\ g.held \in [Context -> SUBSET DOMAIN g.tasks]
    /\ g.queued \subseteq DOMAIN g.tasks
    /\ g.creators \in [Context -> TaskId \cup {NoTask}]
    /\ g.joins \in [Context -> TaskId \cup {NoTask}]
    /\ g.exited \subseteq Context
    /\ g.owner \in [Addr -> TaskId \cup {NoTask}]
    /\ g.entry \in TaskId \cup {NoTask}
    /\ g.exits \in Seq(TaskId)
    /\ g.failed = FALSE

\* A context holds tasks of its own that were not released; its tasks are numbered
\* without a gap.
Numbered(g) ==
    /\ <<0, 0>> \in DOMAIN g.tasks
    /\ \A c \in Context : \A t \in g.held[c] : t[1] = c /\ t \notin g.queued
    /\ \A t \in DOMAIN g.tasks : \A i \in 0 .. t[2] : <<t[1], i>> \in DOMAIN g.tasks
    /\ \A c \in Context : <<c, 0>> \in DOMAIN g.tasks => Type(g, <<c, 0>>) = "basic_blocks"

\* The barriers that have been entered and not been left by all.
Open(g) == {g.exits[i] : i \in DOMAIN g.exits} \cup ({g.entry} \ {NoTask})

Within(g, b, c) == c \in Contexts(g.tasks[b].pred) /\ c \notin Contexts(g.tasks[b].succ)
Inside(g, c)    == \E b \in Open(g) : Within(g, b, c)

\* The active task of a context is its last one, but for the barrier task it has made
\* and is to hold when it leaves.
IsActive(g, c, t) ==
    /\ t \in g.held[c]
    /\ \A u \in DOMAIN g.tasks : u[1] = c =>
          \/ u[2] <= t[2]
          \/ u = getNext(t) /\ u \in Open(g) /\ Within(g, u, c)
    /\ \A b \in Open(g) : b[1] = c /\ Within(g, b, c) => b = getNext(t)

Actives(g, A) == \A c \in A : \E t \in g.held[c] : IsActive(g, c, t)

\* Which types the active task has between two events.
Settled(g, A) ==
    \A c \in A :
        /\ Type(g, activeTask(g, c)) \in {"basic_blocks", "create", "join"}
        /\ Inside(g, c) => Type(g, activeTask(g, c)) = "basic_blocks"

\* The last sync on an address has not been released.
Owners(g) ==
    /\ \A a \in Addr : g.owner[a] # NoTask =>
          g.owner[a] \in g.held[g.owner[a][1]] /\ Type(g, g.owner[a]) = "sync"
    /\ \A a, b \in Addr : g.owner[a] = g.owner[b] /\ g.owner[a] # NoTask => a = b

\* A join that waits is a task of the creator that has not been released.
Joins(g) ==
    \A c \in Context : g.joins[c] # NoTask =>
        /\ g.joins[c][1] = creator[c] /\ g.joins[c] \in g.held[creator[c]]
        /\ Type(g, g.joins[c]) = "join"

Forks(g, t, c) ==
    /\ t \in DOMAIN g.tasks /\ t[1] = creator[c] /\ Type(g, t) = "create"
    /\ <<c, 0>> \in g.tasks[t].succ

Creators(g) ==
    /\ \A c \in Context : g.creators[c] # NoTask => Forks(g, g.creators[c], c)
    /\ \A c \in Context \ {0} : <<c, 0>> \in DOMAIN g.tasks =>
          \E t \in DOMAIN g.tasks : Forks(g, t, c) /\ g.tasks[<<c, 0>>].pred = {t}

\* The last task of a context that has exited and was joined.
Joinings(g, J) ==
    \A c \in J : \E t \in DOMAIN g.tasks :
        /\ t[1] = c /\ getNext(t) \notin DOMAIN g.tasks
        /\ \E j \in g.tasks[t].succ : 
              j[1] = creator[c] /\ j \in DOMAIN g.tasks /\ Type(g, j) = "join"

\* No two tasks of a context.
OnePer(ts) == IsFiniteSet(ts) /\ \A t, u \in ts : t[1] = u[1] => t = u

Whole(g, b) ==
    \A ts \in {g.tasks[b].pred, g.tasks[b].succ} : OnePer(ts) /\ Contexts(ts) = plan.party

OpenOK(g, b) ==
    LET pred == g.tasks[b].pred
        succ == g.tasks[b].succ
    IN  /\ b \in DOMAIN g.tasks /\ Type(g, b) = "barrier" /\ b \notin g.queued /\ b[2] # 0
        /\ OnePer(pred) /\ OnePer(succ)
        /\ b[1] \in Contexts(pred) /\ Contexts(pred) \subseteq plan.party
        /\ Contexts(succ) \subseteq Contexts(pred) /\ Contexts(succ) # Contexts(pred)
        /\ (b \in g.held[b[1]]) <=> (b[1] \in Contexts(succ))

Barriers(g) ==
    /\ \A b \in Open(g) : OpenOK(g, b)
    /\ g.entry # NoTask =>
          g.tasks[g.entry].succ = {} /\ \A i \in DOMAIN g.exits : g.exits[i] # g.entry
    /\ \A i \in DOMAIN g.exits : Contexts(g.tasks[g.exits[i]].pred) = plan.party
    /\ \A i, j \in DOMAIN g.exits : g.exits[i] = g.exits[j] => i = j
    /\ \A c \in Context : \A a, b \in Open(g) : Within(g, a, c) /\ Within(g, b, c) => a = b
    /\ \A b \in DOMAIN g.tasks \ Open(g) : Type(g, b) = "barrier" => Whole(g, b)

Sound(g, J) == Joins(g) /\ Creators(g) /\ Joinings(g, J) /\ Barriers(g)

GraphOK(g, A, J) == IsGraph(g) /\ Numbered(g) /\ Actives(g, A) /\ Sound(g, J)

-----------------------------------------------------------------------------
(***************************************************************************)
(* The graph and the trace.                                                *)
(***************************************************************************)
Awaiting(g, d) == g.entry # NoTask /\ d \in Contexts(g.tasks[g.entry].pred)

\* How many rounds of the barrier a thread has entered before number n, but for the one
\* that is being entered.
Rounds(g, d, n) == Cardinality(Below(d, n)) - (IF Awaiting(g, d) THEN 1 ELSE 0)

Agree(g) ==
    /\ \A c \in Context \ {0} : <<c, 0>> \in DOMAIN g.tasks <=> Begun(c)
    /\ g.exited = {c \in Context : Exited(c)}
    /\ \A c \in Context : g.creators[c] = NoTask /\ Created(c) => Begun(c)
    /\ \A c \in Context : g.joins[c] # NoTask <=> Joined(c) /\ ~Exited(c)
    /\ \A c \in Alive \ {0} : Type(g, activeTask(g, c)) = "join" => Latest(c, "join")
    /\ \A c \in Context : Inside(g, c) <=> Latest(c, "enter")
    /\ \A d, e \in plan.party : Rounds(g, d, Turn) = Rounds(g, e, Turn)

Final(g) ==
    /\ IsGraph(g)
    /\ \A c \in Context : \A t \in g.held[c] : t[1] = c
    /\ pc # "done" \/ Delivered =>
          \A b \in g.queued : Type(g, b) = "barrier" => Whole(g, b)

Built(g) == GraphOK(g, Alive, Gone) /\ Settled(g, Alive) /\ Owners(g) /\ Agree(g)

GraphInv ==
    /\ Story
    /\ pc = "program" => graph = FirstGraph
    /\ pc \in {"scan", "read", "main", "end"} => Built(graph)
    /\ pc \in {"aborted", "done"} => Final(graph)

-----------------------------------------------------------------------------
(***************************************************************************)
(* Steps of the middle layer on the graph.                                 *)
(***************************************************************************)

\* What may happen to the graph g when context c goes on: it gets new tasks, tasks get
\* edges unless they are released or barriers, and some are released.  The contexts in
\* A but c keep their active task.
Grows(g, h) ==
    /\ DOMAIN g.tasks \subseteq DOMAIN h.tasks
    /\ \A t \in DOMAIN g.tasks :
          /\ Type(h, t) = Type(g, t)
          /\ g.tasks[t].pred \subseteq h.tasks[t].pred
          /\ g.tasks[t].succ \subseteq h.tasks[t].succ
          /\ t[2] = 0 => h.tasks[t].pred = g.tasks[t].pred
          /\ t \in g.queued \/ Type(g, t) = "barrier" => h.tasks[t] = g.tasks[t]

Released(g, h) ==
    /\ g.queued \subseteq h.queued
    /\ \A d \in Context : h.held[d] \cap DOMAIN g.tasks = g.held[d] \ h.queued
    /\ \A t \in h.queued \ g.queued :
          t \in DOMAIN g.tasks => t \notin Open(g) /\ \A d \in Context : g.joins[d] # t

Quiet(g, h, c, A) ==
    /\ h.creators = g.creators /\ h.joins = g.joins /\ h.exited = g.exited
    /\ h.owner = g.owner /\ h.entry = g.entry /\ h.exits = g.exits
    /\ Grows(g, h) /\ Released(g, h)
    /\ \A t \in DOMAIN h.tasks \ DOMAIN g.tasks :
          t[1] = c /\ t[2] # 0 /\ Type(h, t) # "barrier"
    /\ \A d \in A \ {c} : \A t : IsActive(g, d, t) => IsActive(h, d, t)

LEMMA QuietTwice ==
  ASSUME NEW g, NEW h, NEW k, NEW c, NEW A, Quiet(g, h, c, A), Quiet(h, k, c, A)
  PROVE  Quiet(g, k, c, A)
<1>1. Open(h) = Open(g) /\ h.joins = g.joins
  BY DEF Quiet, Open
<1>2. Grows(g, k)
  <2>1. Grows(g, h) /\ Grows(h, k) /\ Released(g, h)
    BY DEF Quiet
  <2> QED
    BY <2>1 DEF Grows, Released
<1>3. Released(g, k)
  <2>1. Released(g, h) /\ Released(h, k) /\ DOMAIN g.tasks \subseteq DOMAIN h.tasks
    BY DEF Quiet, Grows
  <2>2. \A d \in Context : k.held[d] \cap DOMAIN g.tasks = g.held[d] \ k.queued
    BY <2>1 DEF Released
  <2> QED
    BY <1>1, <2>1, <2>2 DEF Released
<1>4. ASSUME NEW t \in DOMAIN k.tasks \ DOMAIN g.tasks
      PROVE  t[1] = c /\ t[2] # 0 /\ Type(k, t) # "barrier"
  BY DEF Quiet, Grows
<1>5. \A d \in A \ {c} : \A t : IsActive(g, d, t) => IsActive(k, d, t)
  BY DEF Quiet
<1> QED
  BY <1>2, <1>3, <1>4, <1>5 DEF Quiet

LEMMA QuietSame ==
  ASSUME NEW g, NEW c, NEW A, IsGraph(g), Numbered(g)
  PROVE  Quiet(g, g, c, A)
<1>1. \A d \in Context : g.held[d] \cap DOMAIN g.tasks = g.held[d] \ g.queued
  BY DEF IsGraph, Numbered
<1> QED
  BY <1>1 DEF Quiet, Grows, Released

\* The barriers stay as they are.
LEMMA QuietBarriers ==
  ASSUME NEW g, NEW h, NEW c, NEW A, IsGraph(g), IsGraph(h), Barriers(g), Quiet(g, h, c, A)
  PROVE  /\ Barriers(h) /\ Open(h) = Open(g)
         /\ \A b \in Open(g) : h.tasks[b] = g.tasks[b]
         /\ \A d : Inside(h, d) <=> Inside(g, d)
<1>1. Open(h) = Open(g) /\ h.entry = g.entry /\ h.exits = g.exits
  BY DEF Quiet, Open
<1>2. ASSUME NEW b \in Open(g)
      PROVE  h.tasks[b] = g.tasks[b] /\ OpenOK(h, b) /\ Type(h, b) = Type(g, b)
  <2>1. OpenOK(g, b) /\ Grows(g, h) /\ Released(g, h)
    BY DEF Quiet, Barriers
  <2>2. b \in DOMAIN g.tasks /\ h.tasks[b] = g.tasks[b] /\ b \in DOMAIN h.tasks
    BY <2>1 DEF OpenOK, Grows
  <2>3. b \notin h.queued
    BY <2>1, <2>2 DEF Released, OpenOK
  <2>4. b[1] \in Context
    BY <2>2 DEF IsGraph, TaskId
  <2>5. (b \in h.held[b[1]]) <=> (b \in g.held[b[1]])
    BY <2>1, <2>2, <2>3, <2>4 DEF Released
  <2> QED
    BY <2>1, <2>2, <2>3, <2>5 DEF OpenOK, Type
<1>3. \A d : \A b \in Open(g) : Within(h, b, d) <=> Within(g, b, d)
  BY <1>2 DEF Within
<1>4. g.entry # NoTask => g.entry \in Open(g)
  BY DEF Open
<1>5. \A i \in DOMAIN g.exits : g.exits[i] \in Open(g)
  BY DEF Open
<1>6. ASSUME NEW b \in DOMAIN h.tasks \ Open(h), Type(h, b) = "barrier"
      PROVE  Whole(h, b)
  <2>1. b \in DOMAIN g.tasks
    BY <1>6 DEF Quiet
  <2>2. h.tasks[b] = g.tasks[b] /\ Type(g, b) = "barrier"
    BY <2>1, <1>6 DEF Quiet, Grows
  <2>3. Whole(g, b)
    BY <2>1, <2>2, <1>1 DEF Barriers
  <2> QED
    BY <2>2, <2>3 DEF Whole
<1>7. Barriers(h)
  <2>1. \A b \in Open(h) : OpenOK(h, b)
    BY <1>1, <1>2
  <2>2. h.entry # NoTask =>
          h.tasks[h.entry].succ = {} /\ \A i \in DOMAIN h.exits : h.exits[i] # h.entry
    BY <1>1, <1>2, <1>4 DEF Barriers
  <2>3. \A i \in DOMAIN h.exits : Contexts(h.tasks[h.exits[i]].pred) = plan.party
    BY <1>1, <1>2, <1>5 DEF Barriers
  <2>4. \A i, j \in DOMAIN h.exits : h.exits[i] = h.exits[j] => i = j
    BY <1>1 DEF Barriers
  <2>5. \A d \in Context : \A a, b \in Open(h) : Within(h, a, d) /\ Within(h, b, d) => a = b
    BY <1>1, <1>3 DEF Barriers
  <2> QED
    BY <2>1, <2>2, <2>3, <2>4, <2>5, <1>6 DEF Barriers
<1> QED
  BY <1>1, <1>2, <1>3, <1>7 DEF Inside

LEMMA QuietSound ==
  ASSUME NEW g, NEW h, NEW c, NEW A, NEW J \in SUBSET Context, c \notin J,
         IsGraph(g), Numbered(g), Sound(g, J), IsGraph(h), Quiet(g, h, c, A)
  PROVE  Sound(h, J)
<1>1. Barriers(h)
  BY QuietBarriers DEF Sound
<1>2. ASSUME NEW d \in Context, h.joins[d] # NoTask
      PROVE  /\ h.joins[d][1] = creator[d] /\ h.joins[d] \in h.held[creator[d]]
             /\ Type(h, h.joins[d]) = "join"
  <2>1. h.joins[d] = g.joins[d]
    BY DEF Quiet
  <2>2. /\ g.joins[d][1] = creator[d] /\ g.joins[d] \in g.held[creator[d]]
        /\ Type(g, g.joins[d]) = "join"
    BY <1>2, <2>1 DEF Sound, Joins
  <2>3. g.joins[d] \in TaskId
    BY <1>2, <2>1 DEF IsGraph
  <2>4. creator[d] \in Context
    BY <2>2, <2>3 DEF TaskId
  <2>5. g.joins[d] \in DOMAIN g.tasks
    BY <2>2, <2>4 DEF IsGraph
  <2>6. g.joins[d] \notin g.queued
    BY <2>2, <2>4 DEF Numbered
  <2>7. Released(g, h) /\ Grows(g, h)
    BY DEF Quiet
  <2>8. g.joins[d] \notin h.queued
    BY <2>5, <2>6, <2>7 DEF Released
  <2>9. g.joins[d] \in h.held[creator[d]]
    BY <2>2, <2>4, <2>5, <2>7, <2>8 DEF Released
  <2> QED
    BY <2>1, <2>2, <2>5, <2>7, <2>9 DEF Grows
<1>3. \A t, d : Forks(g, t, d) => Forks(h, t, d)
  BY DEF Forks, Quiet, Grows
<1>4. Creators(h)
  <2>1. ASSUME NEW d \in Context, h.creators[d] # NoTask
        PROVE  Forks(h, h.creators[d], d)
    BY <1>3, <2>1 DEF Quiet, Sound, Creators
  <2>2. ASSUME NEW d \in Context \ {0}, <<d, 0>> \in DOMAIN h.tasks
        PROVE  \E t \in DOMAIN h.tasks : Forks(h, t, d) /\ h.tasks[<<d, 0>>].pred = {t}
    <3>1. <<d, 0>> \in DOMAIN g.tasks
      BY <2>2 DEF Quiet
    <3>2. PICK t \in DOMAIN g.tasks : Forks(g, t, d) /\ g.tasks[<<d, 0>>].pred = {t}
      BY <3>1 DEF Sound, Creators
    <3>3. h.tasks[<<d, 0>>].pred = g.tasks[<<d, 0>>].pred /\ t \in DOMAIN h.tasks
      BY <3>1, <3>2 DEF Quiet, Grows
    <3> QED
      BY <3>2, <3>3, <1>3
  <2> QED
    BY <2>1, <2>2 DEF Creators
<1>5. ASSUME NEW d \in J
      PROVE  \E t \in DOMAIN h.tasks :
                /\ t[1] = d /\ getNext(t) \notin DOMAIN h.tasks
                /\ \E j \in h.tasks[t].succ :
                      j[1] = creator[d] /\ j \in DOMAIN h.tasks /\ Type(h, j) = "join"
  <2>1. PICK t \in DOMAIN g.tasks :
                /\ t[1] = d /\ getNext(t) \notin DOMAIN g.tasks
                /\ \E j \in g.tasks[t].succ :
                      j[1] = creator[d] /\ j \in DOMAIN g.tasks /\ Type(g, j) = "join"
    BY DEF Sound, Joinings
  <2>2. PICK j \in g.tasks[t].succ :
                      j[1] = creator[d] /\ j \in DOMAIN g.tasks /\ Type(g, j) = "join"
    BY <2>1
  <2>3. getNext(t) \notin DOMAIN h.tasks
    <3>1. getNext(t)[1] = d /\ d # c
      BY <2>1 DEF getNext
    <3> QED
      BY <2>1, <3>1 DEF Quiet
  <2>4. t \in DOMAIN h.tasks /\ j \in h.tasks[t].succ /\ j \in DOMAIN h.tasks /\ Type(h, j) = "join"
    BY <2>1, <2>2 DEF Quiet, Grows
  <2> QED
    BY <2>1, <2>2, <2>3, <2>4
<1> QED
  BY <1>1, <1>2, <1>4, <1>5 DEF Sound, Joins, Joinings

\* A quiet step of a context that keeps or gets an active task.
LEMMA QuietOK ==
  ASSUME NEW g, NEW h, NEW c, NEW A \in SUBSET Context, NEW J \in SUBSET Context, c \notin J,
         GraphOK(g, A, J), IsGraph(h), Numbered(h), Quiet(g, h, c, A),
         NEW t, IsActive(h, c, t)
  PROVE  GraphOK(h, A, J)
<1>1. Sound(h, J)
  BY QuietSound DEF GraphOK
<1>2. ASSUME NEW d \in A PROVE \E u \in h.held[d] : IsActive(h, d, u)
  <2>1. CASE d = c
    BY <2>1 DEF IsActive
  <2>2. CASE d # c
    <3>1. PICK u \in g.held[d] : IsActive(g, d, u)
      BY DEF GraphOK, Actives
    <3>2. IsActive(h, d, u)
      BY <2>2, <3>1 DEF Quiet
    <3> QED
      BY <3>2 DEF IsActive
  <2> QED
    BY <2>1, <2>2
<1> QED
  BY <1>1, <1>2 DEF GraphOK, Actives

-----------------------------------------------------------------------------
(***************************************************************************)
(* One task is added, released or linked to another.                       *)
(***************************************************************************)

LEMMA TaskFacts ==
  ASSUME NEW g, IsGraph(g), NEW t \in DOMAIN g.tasks
  PROVE  /\ t \in TaskId /\ t = <<t[1], t[2]>> /\ t[1] \in Context /\ t[2] \in Nat
         /\ getNext(t) = <<t[1], t[2] + 1>> /\ getNext(t)[1] = t[1]
         /\ getNext(t)[2] = t[2] + 1 /\ getNext(t) \in TaskId /\ getNext(t) # t
         /\ t # NoTask /\ Type(g, t) \in Types
         /\ g.tasks[t] = [type |-> Type(g, t), pred |-> g.tasks[t].pred, succ |-> g.tasks[t].succ]
<1>1. t \in TaskId
  BY DEF IsGraph
<1>2. /\ t = <<t[1], t[2]>> /\ t[1] \in Context /\ t[2] \in Nat /\ t[1] # None
  BY <1>1, EventQueueAssumption DEF TaskId, None
<1>3. /\ getNext(t) = <<t[1], t[2] + 1>> /\ getNext(t)[1] = t[1]
      /\ getNext(t)[2] = t[2] + 1
  BY DEF getNext
<1>4. g.tasks[t] \in [type : Types, pred : SUBSET TaskId, succ : SUBSET TaskId]
  BY DEF IsGraph
<1>5. /\ Type(g, t) \in Types
      /\ g.tasks[t] = [type |-> Type(g, t), pred |-> g.tasks[t].pred, succ |-> g.tasks[t].succ]
  BY <1>4 DEF Type
<1>6. getNext(t) # t /\ getNext(t) \in TaskId
  BY <1>2, <1>3 DEF TaskId
<1>7. t # NoTask
  BY <1>2 DEF NoTask
<1> QED
  BY <1>1, <1>2, <1>3, <1>5, <1>6, <1>7

LEMMA ActiveIs ==
  ASSUME NEW g, NEW c \in Context, NEW t, IsGraph(g), Numbered(g), Barriers(g), IsActive(g, c, t)
  PROVE  /\ activeTask(g, c) = t /\ t \in DOMAIN g.tasks /\ t[1] = c /\ t \notin g.queued
         /\ t \in g.held[c]
<1>1. /\ t \in g.held[c] /\ t \in DOMAIN g.tasks /\ t[1] = c /\ t \notin g.queued
      /\ \A u \in g.held[c] : u \in DOMAIN g.tasks /\ u[1] = c
  BY DEF IsActive, IsGraph, Numbered
<1>2. ASSUME NEW u \in g.held[c] PROVE u[2] <= t[2]
  <2>1. \/ u[2] <= t[2]
        \/ u \in Open(g) /\ Within(g, u, c)
    BY <1>1 DEF IsActive
  <2>2. ASSUME u \in Open(g), Within(g, u, c) PROVE FALSE
    <3>1. OpenOK(g, u) /\ u[1] = c
      BY <1>1, <2>2 DEF Barriers
    <3> QED
      BY <3>1, <2>2 DEF OpenOK, Within
  <2> QED
    BY <2>1, <2>2
<1>3. ASSUME NEW s \in g.held[c], \A u \in g.held[c] : u[2] <= s[2]
      PROVE  s = t
  <2>1. s[2] <= t[2] /\ t[2] <= s[2] /\ s[1] = t[1]
    BY <1>1, <1>2, <1>3
  <2>2. s = <<s[1], s[2]>> /\ t = <<t[1], t[2]>> /\ s[2] \in Nat /\ t[2] \in Nat
    BY <1>1, TaskFacts
  <2>3. s[2] = t[2]
    BY <2>1, <2>2
  <2> QED
    BY <2>1, <2>2, <2>3
<1>4. activeTask(g, c) = t
  BY <1>1, <1>2, <1>3 DEF activeTask
<1> QED
  BY <1>1, <1>4

LEMMA NoPending ==
  ASSUME NEW g, NEW t
  PROVE  (Pending(g, t) = 0) <=> (\A c \in Context : g.joins[c] # t)
<1> DEFINE S == {c \in Context : g.joins[c] = t}
<1>1. IsFiniteSet(S)
  BY EventQueueAssumption, FS_Subset
<1>2. Cardinality(S) = 0 <=> S = {}
  BY <1>1, FS_EmptySet
<1> QED
  BY <1>2 DEF Pending

LEMMA CheckIs ==
  ASSUME NEW g, IsGraph(g), NEW ok \in BOOLEAN, ok
  PROVE  Check(g, ok) = g
<1>1. (g.failed \/ ~ok) = FALSE
  BY DEF IsGraph
<1>2. Check(g, ok) = [x \in DOMAIN g |-> IF x = "failed" THEN FALSE ELSE g[x]]
  BY <1>1 DEF Check
<1>3. g = [x \in DOMAIN g |-> g[x]]
  BY DEF IsGraph
<1>4. g.failed = FALSE
  BY DEF IsGraph
<1> QED
  BY <1>2, <1>3, <1>4

LEMMA ReleaseIs ==
  ASSUME NEW g, NEW t \in DOMAIN g.tasks, IsGraph(g), t \in g.held[t[1]],
         \A d \in Context : g.joins[d] # t
  PROVE  LET h == Release(g, t)
         IN  /\ IsGraph(h) /\ h.tasks = g.tasks
             /\ h.held = [g.held EXCEPT ![t[1]] = @ \ {t}] /\ h.queued = g.queued \cup {t}
             /\ h.creators = g.creators /\ h.joins = g.joins /\ h.exited = g.exited
             /\ h.owner = g.owner /\ h.entry = g.entry /\ h.exits = g.exits
<1> DEFINE k == [g EXCEPT !.held[t[1]] = @ \ {t}, !.queued = @ \cup {t}]
           h == Release(g, t)
<1>1. /\ k.tasks = g.tasks
      /\ k.held = [g.held EXCEPT ![t[1]] = @ \ {t}] /\ k.queued = g.queued \cup {t}
      /\ k.creators = g.creators /\ k.joins = g.joins /\ k.exited = g.exited
      /\ k.owner = g.owner /\ k.entry = g.entry /\ k.exits = g.exits /\ k.failed = g.failed
      /\ k = [f \in GraphFields |-> k[f]]
  BY DEF IsGraph, GraphFields
<1>2. t[1] \in Context
  BY TaskFacts
<1>3. IsGraph(k)
  <2>1. k.held \in [Context -> SUBSET DOMAIN k.tasks] /\ k.queued \subseteq DOMAIN k.tasks
    <3>1. g.held \in [Context -> SUBSET DOMAIN g.tasks] /\ g.queued \subseteq DOMAIN g.tasks
      BY DEF IsGraph
    <3>2. g.held[t[1]] \ {t} \subseteq DOMAIN g.tasks
      BY <1>2, <3>1
    <3> HIDE DEF k
    <3> QED
      BY <1>1, <1>2, <3>1, <3>2
  <2> HIDE DEF k
  <2> QED
    BY <1>1, <2>1 DEF IsGraph
<1>4. h = Check(k, TRUE)
  BY NoPending DEF Release
<1>5. h = k
  BY <1>3, <1>4, CheckIs
<1> QED
  BY <1>1, <1>3, <1>5

\* The release of a task that is not the active one of a context in A.
LEMMA ReleaseOK ==
  ASSUME NEW g, NEW A \in SUBSET Context, NEW J \in SUBSET Context, GraphOK(g, A, J),
         NEW t \in DOMAIN g.tasks, t \in g.held[t[1]], \A d \in Context : g.joins[d] # t,
         t \notin Open(g), t[1] \in A => ~IsActive(g, t[1], t), NEW c, c \notin J
  PROVE  LET h == Release(g, t)
         IN  /\ GraphOK(h, A, J) /\ Quiet(g, h, c, A)
             /\ \A d \in Context : \A u : u # t /\ IsActive(g, d, u) => IsActive(h, d, u)
<1> DEFINE h == Release(g, t)
<1>1. /\ IsGraph(h) /\ h.tasks = g.tasks
      /\ h.held = [g.held EXCEPT ![t[1]] = @ \ {t}] /\ h.queued = g.queued \cup {t}
      /\ h.creators = g.creators /\ h.joins = g.joins /\ h.exited = g.exited
      /\ h.owner = g.owner /\ h.entry = g.entry /\ h.exits = g.exits
  BY ReleaseIs DEF GraphOK
<1>2. IsGraph(g) /\ Numbered(g) /\ Actives(g, A) /\ Sound(g, J)
  BY DEF GraphOK
<1>3. t[1] \in Context
  BY <1>2, TaskFacts
<1>4. /\ \A d \in Context : h.held[d] \subseteq g.held[d] /\ (d # t[1] => h.held[d] = g.held[d])
      /\ h.held[t[1]] = g.held[t[1]] \ {t}
  BY <1>1, <1>2, <1>3, ZenonT(60) DEF IsGraph
<1> HIDE DEF h
<1>5. Numbered(h)
  <2>1. \A d \in Context : \A u \in h.held[d] : u[1] = d /\ u \notin h.queued
    BY <1>1, <1>2, <1>4 DEF Numbered
  <2> QED
    BY <1>1, <1>2, <2>1 DEF Numbered, Type
<1>6. Open(h) = Open(g) /\ \A b, d : Within(h, b, d) <=> Within(g, b, d)
  BY <1>1 DEF Open, Within
<1>7. ASSUME NEW d \in Context, NEW u, u # t, IsActive(g, d, u)
      PROVE  IsActive(h, d, u)
  <2>1. u \in h.held[d]
    BY <1>4, <1>7 DEF IsActive
  <2> QED
    BY <1>1, <1>6, <1>7, <2>1 DEF IsActive
<1>8. ASSUME NEW d \in A, NEW u, IsActive(g, d, u) PROVE u # t
  <2>1. u[1] = d
    BY <1>8, <1>2 DEF IsActive, Numbered
  <2> QED
    BY <1>8, <2>1
<1>9. Quiet(g, h, c, A)
  <2>1. Grows(g, h)
    BY <1>1 DEF Grows, Type
  <2>2. Released(g, h)
    <3>1. ASSUME NEW d \in Context PROVE h.held[d] \cap DOMAIN g.tasks = g.held[d] \ h.queued
      <4>1. \A u \in g.held[d] : u[1] = d /\ u \notin g.queued /\ u \in DOMAIN g.tasks
        BY <1>2 DEF Numbered, IsGraph
      <4> QED
        BY <4>1, <1>1, <1>4
    <3> QED
      BY <3>1, <1>1 DEF Released
  <2>3. \A d \in A \ {c} : \A u : IsActive(g, d, u) => IsActive(h, d, u)
    BY <1>7, <1>8
  <2> QED
    BY <1>1, <2>1, <2>2, <2>3 DEF Quiet
<1>10. Sound(h, J)
  BY <1>1, <1>2, <1>9, QuietSound
<1>11. Actives(h, A)
  <2>1. ASSUME NEW d \in A PROVE \E u \in h.held[d] : IsActive(h, d, u)
    <3>1. PICK u \in g.held[d] : IsActive(g, d, u)
      BY <1>2 DEF Actives
    <3>2. IsActive(h, d, u)
      BY <3>1, <1>7, <1>8
    <3> QED
      BY <3>2 DEF IsActive
  <2> QED
    BY <2>1 DEF Actives
<1> QED
  BY <1>1, <1>5, <1>7, <1>9, <1>10, <1>11 DEF GraphOK, h

SameMaps(g, h) ==
    /\ h.creators = g.creators /\ h.joins = g.joins /\ h.exited = g.exited
    /\ h.owner = g.owner /\ h.entry = g.entry /\ h.exits = g.exits

\* What Edge and Add do when they fail no assert.
IsEdge(g, h, t, u) ==
    /\ IsGraph(h) /\ DOMAIN h.tasks = DOMAIN g.tasks
    /\ \A w \in DOMAIN g.tasks :
          /\ Type(h, w) = Type(g, w)
          /\ h.tasks[w].succ = IF w = t THEN g.tasks[w].succ \cup {u} ELSE g.tasks[w].succ
          /\ h.tasks[w].pred = IF w = u THEN g.tasks[w].pred \cup {t} ELSE g.tasks[w].pred
          /\ w \notin {t, u} => h.tasks[w] = g.tasks[w]
    /\ h.held = g.held /\ h.queued = g.queued /\ SameMaps(g, h)

IsAdd(g, h, t, type) ==
    /\ IsGraph(h) /\ DOMAIN h.tasks = DOMAIN g.tasks \cup {t}
    /\ h.tasks[t] = NewTask(type)
    /\ \A w \in DOMAIN g.tasks : h.tasks[w] = g.tasks[w]
    /\ h.held = [g.held EXCEPT ![t[1]] = @ \cup {t}] /\ h.queued = g.queued
    /\ SameMaps(g, h)

LEMMA EdgeIs ==
  ASSUME NEW g, NEW t \in DOMAIN g.tasks, NEW u \in DOMAIN g.tasks, t # u, IsGraph(g)
  PROVE  IsEdge(g, Edge(g, t, u), t, u)
<1> DEFINE k == [g EXCEPT !.tasks[t].succ = @ \cup {u}, !.tasks[u].pred = @ \cup {t}]
           h == Edge(g, t, u)
           T == [type : Types, pred : SUBSET TaskId, succ : SUBSET TaskId]
           ft == [g.tasks EXCEPT ![t].succ = @ \cup {u}]
           fu == [ft EXCEPT ![u].pred = @ \cup {t}]
<1>1. /\ k.tasks = fu
      /\ k.held = g.held /\ k.queued = g.queued
      /\ k.creators = g.creators /\ k.joins = g.joins /\ k.exited = g.exited
      /\ k.owner = g.owner /\ k.entry = g.entry /\ k.exits = g.exits /\ k.failed = g.failed
      /\ k = [f \in GraphFields |-> k[f]]
  BY DEF IsGraph, GraphFields
<1>2. t \in TaskId /\ u \in TaskId /\ g.tasks \in [DOMAIN g.tasks -> T]
  BY DEF IsGraph
<1> HIDE DEF k
<1>3. /\ DOMAIN fu = DOMAIN g.tasks
      /\ fu[t] = [g.tasks[t] EXCEPT !.succ = @ \cup {u}]
      /\ fu[u] = [g.tasks[u] EXCEPT !.pred = @ \cup {t}]
      /\ \A w \in DOMAIN g.tasks \ {t, u} : fu[w] = g.tasks[w]
      /\ fu = [w \in DOMAIN g.tasks |-> fu[w]]
  BY <1>2
<1> HIDE DEF fu
<1>4. ASSUME NEW w \in DOMAIN g.tasks
      PROVE  /\ fu[w] \in T
             /\ fu[w].type = g.tasks[w].type
             /\ fu[w].succ = IF w = t THEN g.tasks[w].succ \cup {u} ELSE g.tasks[w].succ
             /\ fu[w].pred = IF w = u THEN g.tasks[w].pred \cup {t} ELSE g.tasks[w].pred
             /\ w \notin {t, u} => fu[w] = g.tasks[w]
  <2>1. g.tasks[w] \in T
    BY <1>2
  <2>2. CASE w = t
    BY <1>2, <1>3, <2>1, <2>2
  <2>3. CASE w = u
    BY <1>2, <1>3, <2>1, <2>3
  <2>4. CASE w \notin {t, u}
    BY <1>3, <2>1, <2>4
  <2> QED
    BY <2>2, <2>3, <2>4
<1>5. IsGraph(k)
  <2>1. k.tasks \in [DOMAIN k.tasks -> T]
    BY <1>1, <1>3, <1>4
  <2> QED
    BY <1>1, <1>3, <2>1 DEF IsGraph
<1>6. h = k
  <2>1. h = Check(k, t # u)
    BY DEF Edge, k
  <2> QED
    BY <2>1, <1>5, CheckIs
<1> QED
  BY <1>1, <1>3, <1>4, <1>5, <1>6 DEF Type, IsEdge, SameMaps

\* An edge between tasks that are not barriers and were not released.
LEMMA EdgeOK ==
  ASSUME NEW g, NEW A \in SUBSET Context, NEW J \in SUBSET Context, GraphOK(g, A, J),
         NEW t \in DOMAIN g.tasks, NEW u \in DOMAIN g.tasks, t # u, u[2] # 0,
         t \notin g.queued, u \notin g.queued, Type(g, t) # "barrier", Type(g, u) # "barrier",
         NEW c, c \notin J
  PROVE  LET h == Edge(g, t, u)
         IN  /\ GraphOK(h, A, J) /\ Quiet(g, h, c, A)
             /\ \A d, w : IsActive(g, d, w) => IsActive(h, d, w)
<1> DEFINE h == Edge(g, t, u)
<1>0. IsGraph(g)
  BY DEF GraphOK
<1>1. IsEdge(g, h, t, u)
  BY <1>0, EdgeIs
<1> HIDE DEF h
<1>2. IsGraph(g) /\ Numbered(g) /\ Actives(g, A) /\ Sound(g, J)
  BY DEF GraphOK
<1>3. Numbered(h)
  BY <1>1, <1>2 DEF Numbered, IsEdge
<1>4. Open(h) = Open(g)
  BY <1>1 DEF Open, IsEdge, SameMaps
<1>5. ASSUME NEW b \in Open(g) PROVE h.tasks[b] = g.tasks[b]
  <2>1. b \in DOMAIN g.tasks /\ Type(g, b) = "barrier"
    BY <1>2 DEF Sound, Barriers, OpenOK
  <2> QED
    BY <1>1, <2>1 DEF IsEdge
<1>6. ASSUME NEW d, NEW w, IsActive(g, d, w) PROVE IsActive(h, d, w)
  <2>1. \A e : \A b \in Open(g) : Within(h, b, e) <=> Within(g, b, e)
    BY <1>5 DEF Within
  <2> QED
    BY <1>1, <1>4, <1>6, <2>1 DEF IsActive, IsEdge
<1>7. Quiet(g, h, c, A)
  <2>1. Grows(g, h)
    BY <1>1 DEF Grows, IsEdge
  <2>2. Released(g, h)
    <3>1. \A d \in Context : h.held[d] \cap DOMAIN g.tasks = g.held[d] \ h.queued
      BY <1>1, <1>2, ZenonT(60) DEF Numbered, IsGraph, IsEdge
    <3> QED
      BY <3>1, <1>1 DEF Released, IsEdge
  <2> QED
    BY <1>1, <1>6, <2>1, <2>2 DEF Quiet, IsEdge, SameMaps
<1>8. Sound(h, J)
  BY <1>1, <1>2, <1>7, QuietSound DEF IsEdge
<1>9. Actives(h, A)
  BY <1>1, <1>2, <1>6 DEF Actives, IsEdge
<1> QED
  BY <1>1, <1>3, <1>6, <1>7, <1>8, <1>9 DEF GraphOK, IsEdge, h

LEMMA AddIs ==
  ASSUME NEW g, NEW t \in TaskId, t \notin DOMAIN g.tasks, NEW type \in Types, IsGraph(g)
  PROVE  IsAdd(g, Add(g, t, type), t, type)
<1> DEFINE T == [type : Types, pred : SUBSET TaskId, succ : SUBSET TaskId]
           f == Put(g.tasks, t, NewTask(type))
           m == [g EXCEPT !.tasks = f]
           h == Add(g, t, type)
<1>1. /\ DOMAIN f = DOMAIN g.tasks \cup {t} /\ f[t] = NewTask(type)
      /\ \A w \in DOMAIN g.tasks : f[w] = g.tasks[w]
      /\ f = [w \in DOMAIN f |-> f[w]]
  BY DEF Put
<1>2. f \in [DOMAIN f -> T]
  <2>1. NewTask(type) \in T
    BY DEF NewTask
  <2>2. \A w \in DOMAIN g.tasks : g.tasks[w] \in T
    BY DEF IsGraph
  <2> HIDE DEF f, T
  <2> QED
    BY <1>1, <2>1, <2>2
<1> HIDE DEF f
<1>3. /\ m.tasks = f
      /\ m.held = g.held /\ m.queued = g.queued
      /\ m.creators = g.creators /\ m.joins = g.joins /\ m.exited = g.exited
      /\ m.owner = g.owner /\ m.entry = g.entry /\ m.exits = g.exits /\ m.failed = g.failed
      /\ m = [x \in GraphFields |-> m[x]]
  BY DEF IsGraph, GraphFields
<1> HIDE DEF m
<1>4. IsGraph(m)
  BY <1>1, <1>2, <1>3 DEF IsGraph
<1>5. h = [m EXCEPT !.held[t[1]] = @ \cup {t}]
  <2>1. Make(g, t, type) = Check(m, t \notin DOMAIN g.tasks)
    BY DEF Make, m, f
  <2>2. Make(g, t, type) = m
    BY <2>1, <1>4, CheckIs
  <2> QED
    BY <2>2 DEF Add, Hold
<1>6. t[1] \in Context
  BY DEF TaskId
<1>7. /\ h.tasks = f
      /\ h.held = [g.held EXCEPT ![t[1]] = @ \cup {t}] /\ h.queued = g.queued
      /\ h.creators = g.creators /\ h.joins = g.joins /\ h.exited = g.exited
      /\ h.owner = g.owner /\ h.entry = g.entry /\ h.exits = g.exits /\ h.failed = g.failed
      /\ h = [x \in GraphFields |-> h[x]]
  BY <1>3, <1>5, ZenonT(60) DEF GraphFields
<1> HIDE DEF h
<1>8. h.held \in [Context -> SUBSET DOMAIN h.tasks]
  <2>1. g.held \in [Context -> SUBSET DOMAIN g.tasks]
    BY DEF IsGraph
  <2>2. h.held \in [Context -> SUBSET (DOMAIN g.tasks \cup {t})]
    BY <2>1, <1>6, <1>7
  <2> QED
    BY <2>2, <1>1, <1>7
<1>9. IsGraph(h)
  BY <1>1, <1>2, <1>7, <1>8 DEF IsGraph
<1> QED
  BY <1>1, <1>7, <1>9 DEF h, IsAdd, SameMaps

\* A context whose last task is not a barrier's goes on with a new task.
LEMMA AddOK ==
  ASSUME NEW g, NEW A \in SUBSET Context, NEW J \in SUBSET Context, GraphOK(g, A, J),
         NEW c \in Context \ J, NEW t, IsActive(g, c, t), ~Inside(g, c),
         NEW type \in Types \ {"barrier"}
  PROVE  LET n == getNext(t)
             h == Add(g, n, type)
         IN  /\ n \notin DOMAIN g.tasks /\ IsAdd(g, h, n, type)
             /\ GraphOK(h, A, J) /\ Quiet(g, h, c, A) /\ IsActive(h, c, n)
             /\ \A d \in Context, u \in DOMAIN g.tasks : u \in g.held[d] => u \in h.held[d]
<1> DEFINE n == getNext(t)
           h == Add(g, n, type)
<1>1. IsGraph(g) /\ Numbered(g) /\ Actives(g, A) /\ Sound(g, J) /\ Barriers(g)
  BY DEF GraphOK, Sound
<1>2. /\ t \in DOMAIN g.tasks /\ t[1] = c /\ t \in g.held[c]
      /\ t[2] \in Nat /\ n = <<c, t[2] + 1>> /\ n[1] = c /\ n[2] = t[2] + 1 /\ n \in TaskId
  <2>1. t \in DOMAIN g.tasks /\ t[1] = c /\ t \in g.held[c]
    BY <1>1, ActiveIs
  <2> QED
    BY <2>1, <1>1, TaskFacts
<1>3. \A u \in DOMAIN g.tasks : u[1] = c => u[2] <= t[2]
  BY DEF IsActive, Inside
<1>4. n \notin DOMAIN g.tasks
  BY <1>2, <1>3
<1>5. IsAdd(g, h, n, type)
  BY <1>1, <1>2, <1>4, AddIs
<1> HIDE DEF h, n
<1>6. /\ IsGraph(h) /\ DOMAIN h.tasks = DOMAIN g.tasks \cup {n}
      /\ h.tasks[n] = NewTask(type)
      /\ \A w \in DOMAIN g.tasks : h.tasks[w] = g.tasks[w]
      /\ h.queued = g.queued
      /\ h.held = [g.held EXCEPT ![n[1]] = @ \cup {n}]
  BY <1>5 DEF IsAdd
<1>7. /\ h.held[c] = g.held[c] \cup {n} 
      /\ \A d \in Context \ {c} : h.held[d] = g.held[d]
  BY <1>1, <1>2, <1>6, ZenonT(60) DEF IsGraph
<1>8. Numbered(h)
  <2>1. \A d \in Context : \A w \in h.held[d] : w[1] = d /\ w \notin h.queued
    <3>1. n \notin g.queued /\ \A d \in Context : \A w \in g.held[d] : w[1] = d /\ w \notin g.queued
      BY <1>1, <1>4 DEF Numbered, IsGraph
    <3> QED
      BY <3>1, <1>2, <1>6, <1>7
  <2>2. ASSUME NEW w \in DOMAIN h.tasks, NEW i \in 0 .. w[2]
        PROVE  <<w[1], i>> \in DOMAIN h.tasks
    <3>1. CASE w \in DOMAIN g.tasks
      BY <1>1, <1>6, <3>1 DEF Numbered
    <3>2. CASE w = n
      <4>1. CASE i = t[2] + 1
        BY <1>2, <1>6, <3>2, <4>1
      <4>2. CASE i # t[2] + 1
        <5>1. i \in 0 .. t[2]
          BY <1>2, <3>2, <4>2
        <5>2. <<t[1], i>> \in DOMAIN g.tasks
          BY <5>1, <1>1, <1>2 DEF Numbered
        <5> QED
          BY <5>2, <1>2, <1>6, <3>2
      <4> QED
        BY <4>1, <4>2
    <3> QED
      BY <3>1, <3>2, <1>6
  <2>3. ASSUME NEW d \in Context, <<d, 0>> \in DOMAIN h.tasks
        PROVE  Type(h, <<d, 0>>) = "basic_blocks"
    <3>1. <<d, 0>> # n
      BY <1>2
    <3>2. <<d, 0>> \in DOMAIN g.tasks
      BY <1>6, <2>3, <3>1
    <3> QED
      BY <1>1, <1>6, <3>2 DEF Numbered, Type
  <2>4. <<0, 0>> \in DOMAIN h.tasks
    BY <1>1, <1>6 DEF Numbered
  <2> QED
    BY <2>1, <2>2, <2>3, <2>4 DEF Numbered
<1>9. Open(h) = Open(g) /\ \A b \in Open(g) : b \in DOMAIN g.tasks /\ h.tasks[b] = g.tasks[b]
  <2>1. Open(h) = Open(g)
    BY <1>5 DEF IsAdd, SameMaps, Open
  <2>2. \A b \in Open(g) : b \in DOMAIN g.tasks
    BY <1>1 DEF Barriers, OpenOK
  <2> QED
    BY <2>1, <2>2, <1>6
<1>10. \A d : \A b \in Open(g) : Within(h, b, d) <=> Within(g, b, d)
  BY <1>9 DEF Within
<1>11. IsActive(h, c, n)
  <2>1. n \in h.held[c]
    BY <1>7
  <2>2. \A u \in DOMAIN h.tasks : u[1] = c => u[2] <= n[2]
    <3>1. \A u \in DOMAIN g.tasks : u[2] \in Nat
      BY <1>1, TaskFacts
    <3> QED
      BY <3>1, <1>2, <1>3, <1>6
  <2>3. \A b \in Open(h) : ~Within(h, b, c)
    BY <1>9, <1>10 DEF Inside
  <2> QED
    BY <2>1, <2>2, <2>3 DEF IsActive
<1>12. ASSUME NEW d \in Context \ {c}, NEW u, IsActive(g, d, u)
       PROVE  IsActive(h, d, u)
  <2>1. u \in h.held[d]
    BY <1>7, <1>12 DEF IsActive
  <2>2. \A w \in DOMAIN h.tasks : w[1] = d => w \in DOMAIN g.tasks
    BY <1>2, <1>6
  <2> QED
    BY <1>9, <1>10, <1>12, <2>1, <2>2 DEF IsActive
<1>13. Quiet(g, h, c, A)
  <2>1. Grows(g, h)
    BY <1>6 DEF Grows, Type
  <2>2. Released(g, h)
    <3>1. ASSUME NEW d \in Context PROVE h.held[d] \cap DOMAIN g.tasks = g.held[d] \ h.queued
      <4>1. g.held[d] \subseteq DOMAIN g.tasks /\ g.held[d] \cap g.queued = {}
        BY <1>1 DEF Numbered, IsGraph
      <4>2. h.held[d] = g.held[d] \/ h.held[d] = g.held[d] \cup {n}
        BY <1>7
      <4> QED
        BY <4>1, <4>2, <1>4, <1>6
    <3> QED
      BY <3>1, <1>6 DEF Released
  <2>3. \A w \in DOMAIN h.tasks \ DOMAIN g.tasks : w[1] = c /\ w[2] # 0 /\ Type(h, w) # "barrier"
    BY <1>2, <1>6 DEF Type, NewTask
  <2>4. \A d \in A \ {c} : \A u : IsActive(g, d, u) => IsActive(h, d, u)
    BY <1>12
  <2> QED
    BY <1>5, <2>1, <2>2, <2>3, <2>4 DEF Quiet, IsAdd, SameMaps
<1>14. GraphOK(h, A, J)
  BY <1>6, <1>8, <1>11, <1>13, QuietOK
<1> QED
  BY <1>4, <1>5, <1>7, <1>11, <1>13, <1>14 DEF h, n

\* Context c may go on from its active task t; it has gone on to task t.
Current(g, c, A, J, t) ==
    /\ A \subseteq Context /\ J \subseteq Context /\ c \in Context \ J
    /\ GraphOK(g, A, J) /\ IsActive(g, c, t) /\ ~Inside(g, c) /\ Type(g, t) # "barrier"

Moved(g, h, c, A, J, t) == Current(h, c, A, J, t) /\ Quiet(g, h, c, A)

LEMMA CurrentFacts ==
  ASSUME NEW g, NEW c, NEW A, NEW J, NEW t, Current(g, c, A, J, t)
  PROVE  /\ A \in SUBSET Context /\ J \in SUBSET Context /\ c \in Context \ J
         /\ GraphOK(g, A, J) /\ IsActive(g, c, t) /\ ~Inside(g, c) /\ Type(g, t) # "barrier"
         /\ IsGraph(g) /\ Numbered(g) /\ Sound(g, J) /\ Barriers(g)
         /\ activeTask(g, c) = t /\ t \in DOMAIN g.tasks /\ t[1] = c /\ t \in g.held[c]
         /\ t \notin g.queued
<1>1. /\ A \in SUBSET Context /\ J \in SUBSET Context /\ c \in Context \ J
      /\ GraphOK(g, A, J) /\ IsActive(g, c, t) /\ ~Inside(g, c) /\ Type(g, t) # "barrier"
  BY DEF Current
<1>2. IsGraph(g) /\ Numbered(g) /\ Sound(g, J) /\ Barriers(g)
  BY <1>1 DEF GraphOK, Sound
<1>3. /\ activeTask(g, c) = t /\ t \in DOMAIN g.tasks /\ t[1] = c /\ t \in g.held[c]
      /\ t \notin g.queued
  BY <1>1, <1>2, ActiveIs
<1> QED
  BY <1>1, <1>2, <1>3

LEMMA FollowOK ==
  ASSUME NEW g, NEW c, NEW A, NEW J, NEW t, Current(g, c, A, J, t),
         NEW type \in Types \ {"barrier"}
  PROVE  LET n == getNext(t)
             h == Follow(g, t, type)
         IN  /\ Moved(g, h, c, A, J, n) /\ Type(h, n) = type
             /\ n \notin DOMAIN g.tasks /\ DOMAIN h.tasks = DOMAIN g.tasks \cup {n}
             /\ h.queued = g.queued
             /\ \A d \in Context : \A u \in g.held[d] : u \in h.held[d]
<1> DEFINE n == getNext(t)
           m == Add(g, n, type)
           h == Follow(g, t, type)
<1>1. /\ A \in SUBSET Context /\ J \in SUBSET Context /\ c \in Context \ J
      /\ GraphOK(g, A, J) /\ IsActive(g, c, t) /\ ~Inside(g, c) /\ Type(g, t) # "barrier"
      /\ IsGraph(g) /\ Numbered(g) /\ Barriers(g)
  BY CurrentFacts
<1>2. /\ t \in DOMAIN g.tasks /\ t[1] = c /\ t \in g.held[c] /\ t \notin g.queued
      /\ t[2] \in Nat /\ n[1] = c /\ n[2] = t[2] + 1 /\ n # t
  <2>1. t \in DOMAIN g.tasks /\ t[1] = c /\ t \in g.held[c] /\ t \notin g.queued
    BY CurrentFacts
  <2> QED
    BY <2>1, <1>1, TaskFacts
<1>3. /\ n \notin DOMAIN g.tasks /\ IsAdd(g, m, n, type)
      /\ GraphOK(m, A, J) /\ Quiet(g, m, c, A) /\ IsActive(m, c, n)
      /\ \A d \in Context, u \in DOMAIN g.tasks : u \in g.held[d] => u \in m.held[d]
  BY <1>1, AddOK
<1> HIDE DEF m, n
<1>4. h = Edge(m, t, n)
  BY DEF Follow, m, n
<1> HIDE DEF h
<1>5. /\ t \in DOMAIN m.tasks /\ n \in DOMAIN m.tasks /\ t \notin m.queued /\ n \notin m.queued
      /\ Type(m, t) # "barrier" /\ Type(m, n) = type
      /\ DOMAIN m.tasks = DOMAIN g.tasks \cup {n} /\ m.queued = g.queued
  <2>1. n \notin g.queued
    BY <1>1, <1>3 DEF IsGraph
  <2> QED
    BY <1>1, <1>2, <1>3, <2>1 DEF IsAdd, Type, NewTask
<1>6. /\ GraphOK(h, A, J) /\ Quiet(m, h, c, A)
      /\ \A d, w : IsActive(m, d, w) => IsActive(h, d, w)
  <2>1. t # n /\ n[2] # 0 /\ c \notin J /\ GraphOK(m, A, J)
    BY <1>1, <1>2, <1>3
  <2>2. Type(m, t) # "barrier" /\ Type(m, n) # "barrier"
    BY <1>5
  <2>3. /\ GraphOK(Edge(m, t, n), A, J) /\ Quiet(m, Edge(m, t, n), c, A)
        /\ \A d, w : IsActive(m, d, w) => IsActive(Edge(m, t, n), d, w)
    BY <1>1, <2>1, <2>2, <1>5, EdgeOK
  <2> QED
    BY <2>3, <1>4
<1>7. IsEdge(m, h, t, n)
  <2>1. IsGraph(m)
    BY <1>3 DEF GraphOK
  <2> QED
    BY <2>1, <1>2, <1>4, <1>5, EdgeIs
<1> HIDE DEF h
<1>8. Quiet(g, h, c, A)
  BY <1>3, <1>6, QuietTwice
<1>9. ~Inside(h, c)
  <2>1. IsGraph(h)
    BY <1>6 DEF GraphOK
  <2> QED
    BY <1>1, <1>8, <2>1, QuietBarriers
<1>10. /\ Type(h, n) = type /\ DOMAIN h.tasks = DOMAIN g.tasks \cup {n}
       /\ h.queued = g.queued /\ h.held = m.held
  BY <1>5, <1>7 DEF IsEdge
<1>11. \A d \in Context : \A u \in g.held[d] : u \in h.held[d]
  BY <1>1, <1>3, <1>10 DEF IsGraph
<1> QED
  BY <1>1, <1>3, <1>6, <1>8, <1>9, <1>10, <1>11 DEF Moved, Current, h, n

\* No sync but s is released.
SyncsStay(g, h, s) ==
    \A t \in DOMAIN g.tasks :
        Type(g, t) = "sync" /\ t \in h.queued => t \in g.queued \/ t = s

\* An older task of the context is released if nothing waits for it.
LEMMA ReleaseOlder ==
  ASSUME NEW g, NEW c, NEW A, NEW J, NEW n, Current(g, c, A, J, n),
         NEW t \in g.held[c], t # n, Type(g, t) # "barrier", \A d \in Context : g.joins[d] # t
  PROVE  LET h == Release(g, t)
         IN  /\ Moved(g, h, c, A, J, n) /\ SyncsStay(g, h, t)
             /\ h.tasks = g.tasks /\ h.queued = g.queued \cup {t}
             /\ \A u \in g.held[c] : u # t => u \in h.held[c]
<1> DEFINE h == Release(g, t)
<1>1. /\ A \in SUBSET Context /\ J \in SUBSET Context /\ c \in Context \ J
      /\ GraphOK(g, A, J) /\ IsActive(g, c, n) /\ ~Inside(g, c) /\ Type(g, n) # "barrier"
      /\ IsGraph(g) /\ Numbered(g) /\ Sound(g, J) /\ Barriers(g)
  BY CurrentFacts
<1>2. t \in DOMAIN g.tasks /\ t[1] = c
  BY <1>1 DEF IsGraph, Numbered
<1>3. t \notin Open(g)
  BY <1>1 DEF Barriers, OpenOK
<1>4. ~IsActive(g, c, t)
  <2>1. ASSUME IsActive(g, c, t) PROVE FALSE
    <3>1. activeTask(g, c) = t
      BY <2>1, <1>1, ActiveIs
    <3>2. activeTask(g, c) = n
      BY CurrentFacts
    <3> QED
      BY <3>1, <3>2
  <2> QED
    BY <2>1
<1>5. /\ GraphOK(h, A, J) /\ Quiet(g, h, c, A)
      /\ \A d \in Context : \A u : u # t /\ IsActive(g, d, u) => IsActive(h, d, u)
  BY <1>1, <1>2, <1>3, <1>4, ReleaseOK
<1>6. /\ h.tasks = g.tasks /\ h.queued = g.queued \cup {t}
      /\ h.held = [g.held EXCEPT ![t[1]] = @ \ {t}]
  BY <1>1, <1>2, ReleaseIs
<1> HIDE DEF h
<1>7. ~Inside(h, c)
  <2>1. IsGraph(h)
    BY <1>5 DEF GraphOK
  <2> QED
    BY <1>1, <1>5, <2>1, QuietBarriers
<1>8. \A u \in g.held[c] : u # t => u \in h.held[c]
  BY <1>1, <1>2, <1>6 DEF IsGraph
<1>9. Type(h, n) = Type(g, n)
  BY <1>6 DEF Type
<1>10. SyncsStay(g, h, t)
  BY <1>6 DEF SyncsStay
<1> QED
  BY <1>5, <1>6, <1>7, <1>8, <1>9, <1>10 DEF Moved, Current, h

LEMMA NoneWaits ==
  ASSUME NEW g, NEW J, Sound(g, J), NEW t, t # NoTask, Type(g, t) # "join"
  PROVE  \A d \in Context : g.joins[d] # t
BY DEF Sound, Joins

LEMMA AttemptOK ==
  ASSUME NEW g, NEW c, NEW A, NEW J, NEW n, Current(g, c, A, J, n),
         NEW t \in g.held[c], t # n, Type(g, t) # "barrier"
  PROVE  LET h == attemptBackgroundQueueTask(g, t)
         IN  /\ Moved(g, h, c, A, J, n) /\ SyncsStay(g, h, NoTask) /\ h.tasks = g.tasks
             /\ Type(g, t) = "basic_blocks" => t \in h.queued
<1> DEFINE h == attemptBackgroundQueueTask(g, t)
           P == \/ Type(g, t) \in {"basic_blocks", "create"}
                \/ Type(g, t) = "join" /\ Pending(g, t) = 0
<1>1. /\ A \in SUBSET Context /\ J \in SUBSET Context /\ c \in Context \ J
      /\ GraphOK(g, A, J) /\ IsActive(g, c, n) /\ ~Inside(g, c) /\ Type(g, n) # "barrier"
      /\ IsGraph(g) /\ Numbered(g) /\ Sound(g, J) /\ Barriers(g)
  BY CurrentFacts
<1>2. CASE P
  <2>1. \A d \in Context : g.joins[d] # t
    <3>1. CASE Type(g, t) \in {"basic_blocks", "create"}
      <4>1. t # NoTask
        BY <1>1, TaskFacts DEF IsGraph
      <4> QED
        BY <1>1, <3>1, <4>1, NoneWaits
    <3>2. CASE Type(g, t) = "join" /\ Pending(g, t) = 0
      BY <3>2, NoPending
    <3> QED
      BY <1>2, <3>1, <3>2
  <2>2. h = Release(g, t)
    BY <1>2 DEF attemptBackgroundQueueTask
  <2>3. /\ Moved(g, h, c, A, J, n) /\ SyncsStay(g, h, t)
        /\ h.tasks = g.tasks /\ h.queued = g.queued \cup {t}
    <3>1. /\ Moved(g, Release(g, t), c, A, J, n) /\ SyncsStay(g, Release(g, t), t)
          /\ Release(g, t).tasks = g.tasks /\ Release(g, t).queued = g.queued \cup {t}
      BY <2>1, ReleaseOlder
    <3> QED
      BY <2>2, <3>1
  <2> HIDE DEF h
  <2>4. SyncsStay(g, h, NoTask)
    <3>1. Type(g, t) # "sync"
      BY <1>2
    <3> QED
      BY <2>3, <3>1 DEF SyncsStay
  <2> QED
    BY <2>3, <2>4 DEF h
<1>3. CASE ~P
  <2>1. h = g
    BY <1>3 DEF attemptBackgroundQueueTask
  <2>2. Quiet(g, g, c, A)
    BY <1>1, QuietSame
  <2> QED
    BY <1>3, <2>1, <2>2 DEF Moved, SyncsStay
<1> QED
  BY <1>2, <1>3

\* Steps that follow each other.
LEMMA MovedTwice ==
  ASSUME NEW g, NEW h, NEW k, NEW c, NEW A, NEW J, NEW t, NEW u,
         Moved(g, h, c, A, J, t), SyncsStay(g, h, NoTask),
         Moved(h, k, c, A, J, u), SyncsStay(h, k, NoTask)
  PROVE  Moved(g, k, c, A, J, u) /\ SyncsStay(g, k, NoTask)
<1>1. Quiet(g, k, c, A)
  BY QuietTwice DEF Moved
<1>2. SyncsStay(g, k, NoTask)
  <2>1. Grows(g, h)
    BY DEF Moved, Quiet
  <2> QED
    BY <2>1 DEF SyncsStay, Grows
<1> QED
  BY <1>1, <1>2 DEF Moved

LEMMA MovedNot ==
  ASSUME NEW g, NEW c, NEW A, NEW J, NEW t, Current(g, c, A, J, t)
  PROVE  Moved(g, g, c, A, J, t) /\ SyncsStay(g, g, NoTask)
<1>1. IsGraph(g) /\ Numbered(g)
  BY CurrentFacts
<1>2. Quiet(g, g, c, A)
  BY <1>1, QuietSame
<1> QED
  BY <1>2 DEF Moved, SyncsStay

LEMMA NextBlockOK ==
  ASSUME NEW g, NEW c, NEW A, NEW J, NEW t, Current(g, c, A, J, t)
  PROVE  LET h == NextBlock(g, c)
         IN  \E n : /\ Moved(g, h, c, A, J, n) /\ SyncsStay(g, h, NoTask)
                    /\ Type(h, n) = "basic_blocks"
<1>1. /\ A \in SUBSET Context /\ J \in SUBSET Context /\ c \in Context \ J
      /\ GraphOK(g, A, J) /\ IsActive(g, c, t) /\ ~Inside(g, c) /\ Type(g, t) # "barrier"
      /\ IsGraph(g) /\ Numbered(g) /\ Sound(g, J) /\ Barriers(g)
  BY CurrentFacts
<1>2. activeTask(g, c) = t /\ t \in g.held[c] /\ t \in DOMAIN g.tasks
  BY CurrentFacts
<1>3. CASE Type(g, t) = "basic_blocks"
  <2>1. NextBlock(g, c) = g
    BY <1>2, <1>3 DEF NextBlock
  <2>2. Moved(g, g, c, A, J, t) /\ SyncsStay(g, g, NoTask)
    BY MovedNot
  <2> QED
    BY <2>1, <2>2, <1>3
<1>4. CASE Type(g, t) # "basic_blocks"
  <2> DEFINE n == getNext(t)
             m == Follow(g, t, "basic_blocks")
             h == attemptBackgroundQueueTask(m, t)
  <2>1. NextBlock(g, c) = h
    BY <1>2, <1>4 DEF NextBlock, createBasicBlockContinuation
  <2>2. /\ Moved(g, m, c, A, J, n) /\ Type(m, n) = "basic_blocks"
        /\ n \notin DOMAIN g.tasks /\ DOMAIN m.tasks = DOMAIN g.tasks \cup {n}
        /\ m.queued = g.queued
        /\ \A d \in Context : \A u \in g.held[d] : u \in m.held[d]
    BY FollowOK DEF Types
  <2> HIDE DEF n, m
  <2>3. SyncsStay(g, m, NoTask)
    BY <2>2 DEF SyncsStay
  <2>4. t \in m.held[c] /\ t # n /\ Type(m, t) # "barrier"
    BY <1>2, <2>2 DEF Moved, Current, Quiet, Grows
  <2>5. Moved(m, h, c, A, J, n) /\ SyncsStay(m, h, NoTask) /\ h.tasks = m.tasks
    BY <2>2, <2>4, AttemptOK DEF Moved
  <2> HIDE DEF h
  <2>6. Moved(g, h, c, A, J, n) /\ SyncsStay(g, h, NoTask)
    BY <2>2, <2>3, <2>5, MovedTwice
  <2>7. Type(h, n) = "basic_blocks"
    BY <2>2, <2>5 DEF Type
  <2> QED
    BY <2>1, <2>6, <2>7
<1> QED
  BY <1>3, <1>4

LEMMA ContinueOK ==
  ASSUME NEW g, NEW c, NEW A, NEW J, NEW t, Current(g, c, A, J, t),
         NEW type \in Types \ {"barrier"}, c \notin g.exited
  PROVE  LET h == createContinuation(g, c, type)
         IN  \E n : /\ Moved(g, h, c, A, J, n) /\ SyncsStay(g, h, NoTask)
                    /\ Type(h, n) = type /\ n \notin DOMAIN g.tasks /\ n \notin h.queued
                    /\ t \in h.held[c] /\ t # n /\ Type(h, t) = Type(g, t)
<1>1. /\ A \in SUBSET Context /\ J \in SUBSET Context /\ c \in Context \ J
      /\ GraphOK(g, A, J) /\ IsActive(g, c, t) /\ ~Inside(g, c) /\ Type(g, t) # "barrier"
      /\ IsGraph(g) /\ Numbered(g) /\ Sound(g, J) /\ Barriers(g)
  BY CurrentFacts
<1>2. activeTask(g, c) = t /\ t \in g.held[c] /\ t \in DOMAIN g.tasks
  BY CurrentFacts
<1>3. CASE Type(g, t) = "basic_blocks"
  <2> DEFINE n == getNext(t)
             h == Follow(g, t, type)
  <2>1. /\ Moved(g, h, c, A, J, n) /\ Type(h, n) = type
        /\ n \notin DOMAIN g.tasks /\ DOMAIN h.tasks = DOMAIN g.tasks \cup {n}
        /\ h.queued = g.queued
        /\ \A d \in Context : \A u \in g.held[d] : u \in h.held[d]
    BY FollowOK
  <2>2. createContinuation(g, c, type) = Check(h, TRUE)
    BY <1>2, <1>3 DEF createContinuation
  <2> HIDE DEF n, h
  <2>3. createContinuation(g, c, type) = h
    <3>1. IsGraph(h)
      BY <2>1 DEF Moved, Current, GraphOK
    <3> QED
      BY <2>2, <3>1, CheckIs
  <2>4. SyncsStay(g, h, NoTask) /\ n \notin h.queued
    BY <1>1, <2>1 DEF SyncsStay, IsGraph
  <2>5. t \in h.held[c] /\ t # n /\ Type(h, t) = Type(g, t)
    BY <1>2, <2>1 DEF Moved, Current, Quiet, Grows
  <2> QED
    BY <2>1, <2>3, <2>4, <2>5
<1>4. CASE Type(g, t) # "basic_blocks"
  <2> DEFINE m == getNext(t)
             g1 == Follow(g, t, "basic_blocks")
             n == getNext(m)
             g2 == Follow(g1, m, type)
             h == Release(g2, m)
  <2>1. /\ Moved(g, g1, c, A, J, m) /\ Type(g1, m) = "basic_blocks"
        /\ m \notin DOMAIN g.tasks /\ DOMAIN g1.tasks = DOMAIN g.tasks \cup {m}
        /\ g1.queued = g.queued
        /\ \A d \in Context : \A u \in g.held[d] : u \in g1.held[d]
    BY FollowOK DEF Types
  <2> HIDE DEF m, g1
  <2>2. activeTask(g1, c) = m /\ m \in g1.held[c] /\ m \in DOMAIN g1.tasks
    <3>1. Current(g1, c, A, J, m)
      BY <2>1 DEF Moved
    <3> QED
      BY <3>1, CurrentFacts
  <2>3. /\ Moved(g1, g2, c, A, J, n) /\ Type(g2, n) = type
        /\ n \notin DOMAIN g1.tasks /\ DOMAIN g2.tasks = DOMAIN g1.tasks \cup {n}
        /\ g2.queued = g1.queued
        /\ \A d \in Context : \A u \in g1.held[d] : u \in g2.held[d]
    BY <2>1, FollowOK DEF Moved
  <2>4. createContinuation(g, c, type) = Check(h, TRUE)
    BY <1>2, <1>4, <2>2 DEF createContinuation, createBasicBlockContinuation, g1, m
  <2> HIDE DEF n, g2
  <2>5. /\ IsGraph(g2) /\ Sound(g2, J) /\ m \in g2.held[c] /\ m # n
        /\ Type(g2, m) = "basic_blocks" /\ m # NoTask
    <3>1. IsGraph(g2) /\ Sound(g2, J)
      BY <2>3 DEF Moved, Current, GraphOK
    <3>2. m \in g2.held[c] /\ m # n /\ Type(g2, m) = "basic_blocks"
      BY <2>1, <2>2, <2>3 DEF Moved, Current, Quiet, Grows
    <3>3. m # NoTask
      BY <2>2, <2>3, <3>1, TaskFacts, ZenonT(60)
    <3> QED
      BY <3>1, <3>2, <3>3
  <2>6. /\ Moved(g2, h, c, A, J, n) /\ SyncsStay(g2, h, m)
        /\ h.tasks = g2.tasks /\ h.queued = g2.queued \cup {m}
        /\ \A u \in g2.held[c] : u # m => u \in h.held[c]
    <3>1. \A d \in Context : g2.joins[d] # m
      BY <2>5, NoneWaits
    <3>2. Current(g2, c, A, J, n)
      BY <2>3 DEF Moved
    <3>3. m \in g2.held[c] /\ m # n /\ Type(g2, m) # "barrier" /\ h = Release(g2, m)
      BY <2>5
    <3> HIDE DEF h
    <3> QED
      BY <3>1, <3>2, <3>3, ReleaseOlder
  <2> HIDE DEF h
  <2>7. createContinuation(g, c, type) = h
    <3>1. IsGraph(h)
      BY <2>6 DEF Moved, Current, GraphOK
    <3> QED
      BY <2>4, <3>1, CheckIs
  <2>8. Moved(g, h, c, A, J, n) /\ SyncsStay(g, h, NoTask)
    <3>1. SyncsStay(g, g1, NoTask) /\ SyncsStay(g1, g2, NoTask) /\ SyncsStay(g2, h, NoTask)
      BY <2>1, <2>3, <2>5, <2>6 DEF SyncsStay
    <3>2. Moved(g, g2, c, A, J, n) /\ SyncsStay(g, g2, NoTask)
      BY <2>1, <2>3, <3>1, MovedTwice
    <3> QED
      BY <2>6, <3>1, <3>2, MovedTwice
  <2>9. Type(h, n) = type /\ n \notin DOMAIN g.tasks /\ n \notin h.queued
    BY <1>1, <2>1, <2>3, <2>5, <2>6 DEF Type, IsGraph
  <2>10. t \in h.held[c] /\ t # n /\ Type(h, t) = Type(g, t)
    <3>1. t \in g2.held[c] /\ t # m
      BY <1>1, <1>2, <2>1, <2>3
    <3> QED
      BY <1>2, <2>6, <2>8, <2>9, <3>1 DEF Moved, Current, Quiet, Grows
  <2> QED
    BY <2>7, <2>8, <2>9, <2>10
<1> QED
  BY <1>3, <1>4

LEMMA MergeOK ==
  ASSUME NEW g, NEW c, NEW A, NEW J, NEW t, Current(g, c, A, J, t),
         NEW type \in Types \ {"barrier"}, c \notin g.exited
  PROVE  LET h == Merge(g, c, type)
         IN  \E n : /\ Moved(g, h, c, A, J, n) /\ SyncsStay(g, h, NoTask)
                    /\ Type(h, n) = type
<1>1. /\ A \in SUBSET Context /\ J \in SUBSET Context /\ c \in Context \ J
      /\ GraphOK(g, A, J) /\ IsActive(g, c, t) /\ ~Inside(g, c) /\ Type(g, t) # "barrier"
      /\ IsGraph(g) /\ Numbered(g) /\ Sound(g, J) /\ Barriers(g)
  BY CurrentFacts
<1>2. activeTask(g, c) = t /\ t \in g.held[c] /\ t \in DOMAIN g.tasks
  BY CurrentFacts
<1>3. CASE Type(g, t) = type
  <2>1. Merge(g, c, type) = g
    BY <1>2, <1>3 DEF Merge
  <2>2. Moved(g, g, c, A, J, t) /\ SyncsStay(g, g, NoTask)
    BY MovedNot
  <2> QED
    BY <2>1, <2>2, <1>3
<1>4. CASE Type(g, t) # type
  <2> DEFINE m == createContinuation(g, c, type)
             h == attemptBackgroundQueueTask(m, t)
  <2>1. Merge(g, c, type) = h
    BY <1>2, <1>4 DEF Merge
  <2>2. PICK n : /\ Moved(g, m, c, A, J, n) /\ SyncsStay(g, m, NoTask)
                 /\ Type(m, n) = type /\ n \notin DOMAIN g.tasks /\ n \notin m.queued
                 /\ t \in m.held[c] /\ t # n /\ Type(m, t) = Type(g, t)
    BY ContinueOK
  <2> HIDE DEF m
  <2>3. Moved(m, h, c, A, J, n) /\ SyncsStay(m, h, NoTask) /\ h.tasks = m.tasks
    BY <1>1, <2>2, AttemptOK DEF Moved
  <2> HIDE DEF h
  <2>4. Moved(g, h, c, A, J, n) /\ SyncsStay(g, h, NoTask)
    BY <2>2, <2>3, MovedTwice
  <2>5. Type(h, n) = type
    BY <2>2, <2>3 DEF Type
  <2> QED
    BY <2>1, <2>4, <2>5
<1> QED
  BY <1>3, <1>4

-----------------------------------------------------------------------------
(***************************************************************************)
(* What is seen of the graph from outside when an event of a context is    *)
(* dealt with.                                                             *)
(***************************************************************************)
Frozen(g, h) == \A t \in g.queued : t \in h.queued /\ h.tasks[t] = g.tasks[t]

\* What the other contexts see: none begins, none enters or leaves a barrier, and the
\* types of their last tasks stay.
Sees(g, h, c, A) ==
    /\ Frozen(g, h)
    /\ \A d \in Context \ {c} :
          /\ <<d, 0>> \in DOMAIN h.tasks <=> <<d, 0>> \in DOMAIN g.tasks
          /\ Inside(h, d) <=> Inside(g, d)
    /\ \A d \in A \ {c} : Type(h, activeTask(h, d)) = Type(g, activeTask(g, d))

\* Nothing happens to the barriers, and c has begun before.
Calm(g, h, c, A) ==
    /\ Sees(g, h, c, A)
    /\ <<c, 0>> \in DOMAIN h.tasks <=> <<c, 0>> \in DOMAIN g.tasks
    /\ Inside(h, c) <=> Inside(g, c)
    /\ \A d \in Context : Awaiting(h, d) <=> Awaiting(g, d)

LEMMA CalmTwice ==
  ASSUME NEW g, NEW h, NEW k, NEW c, NEW A, Calm(g, h, c, A), Calm(h, k, c, A)
  PROVE  Calm(g, k, c, A)
BY DEF Calm, Sees, Frozen

LEMMA QuietCalm ==
  ASSUME NEW g, NEW h, NEW c \in Context, NEW A \in SUBSET Context, NEW J,
         GraphOK(g, A, J), GraphOK(h, A, J), Quiet(g, h, c, A)
  PROVE  Calm(g, h, c, A)
<1>1. /\ IsGraph(g) /\ Numbered(g) /\ Barriers(g) /\ Actives(g, A)
      /\ IsGraph(h) /\ Numbered(h) /\ Barriers(h)
  BY DEF GraphOK, Sound
<1>2. /\ Open(h) = Open(g) /\ \A b \in Open(g) : h.tasks[b] = g.tasks[b]
      /\ \A d : Inside(h, d) <=> Inside(g, d)
  BY <1>1, QuietBarriers
<1>3. Frozen(g, h)
  BY <1>1 DEF Frozen, Quiet, Grows, Released, IsGraph
<1>4. \A d \in Context : <<d, 0>> \in DOMAIN h.tasks <=> <<d, 0>> \in DOMAIN g.tasks
  BY DEF Quiet, Grows
<1>5. ASSUME NEW d \in A \ {c}
      PROVE  Type(h, activeTask(h, d)) = Type(g, activeTask(g, d))
  <2>1. PICK t \in g.held[d] : IsActive(g, d, t)
    BY <1>1 DEF Actives
  <2>2. IsActive(h, d, t)
    BY <2>1 DEF Quiet
  <2>3. activeTask(g, d) = t /\ t \in DOMAIN g.tasks
    BY <1>1, <2>1, ActiveIs
  <2>4. activeTask(h, d) = t
    BY <1>1, <2>2, ActiveIs
  <2> QED
    BY <2>3, <2>4 DEF Quiet, Grows
<1>6. \A d \in Context : Awaiting(h, d) <=> Awaiting(g, d)
  <2>1. h.entry = g.entry /\ (g.entry # NoTask => g.entry \in Open(g))
    BY DEF Quiet, Open
  <2> QED
    BY <1>2, <2>1 DEF Awaiting
<1> QED
  BY <1>2, <1>3, <1>4, <1>5, <1>6 DEF Calm, Sees

\* Graphs that differ in other things than tasks and barriers.
SameTasks(g, h) ==
    /\ h.tasks = g.tasks /\ h.held = g.held /\ h.queued = g.queued
    /\ h.entry = g.entry /\ h.exits = g.exits

LEMMA SameTasksOK ==
  ASSUME NEW g, NEW h, NEW A, NEW J, SameTasks(g, h), GraphOK(g, A, J)
  PROVE  /\ Numbered(h) /\ Actives(h, A) /\ Joinings(h, J) /\ Barriers(h)
         /\ \A c : Calm(g, h, c, A)
         /\ \A c, t : IsActive(g, c, t) => IsActive(h, c, t)
         /\ \A c : activeTask(h, c) = activeTask(g, c)
<1>1. \A t : Type(h, t) = Type(g, t)
  BY DEF SameTasks, Type
<1>2. Open(h) = Open(g) /\ \A b, d : Within(h, b, d) <=> Within(g, b, d)
  BY DEF SameTasks, Open, Within
<1>3. \A c, t : IsActive(h, c, t) <=> IsActive(g, c, t)
  BY <1>2 DEF SameTasks, IsActive
<1>4. Numbered(h)
  BY <1>1 DEF SameTasks, GraphOK, Numbered
<1>5. Actives(h, A)
  BY <1>3 DEF SameTasks, GraphOK, Actives
<1>6. Joinings(h, J)
  BY <1>1 DEF SameTasks, GraphOK, Sound, Joinings
<1>7. Barriers(h)
  <2>1. \A b \in Open(g) : OpenOK(h, b) <=> OpenOK(g, b)
    BY <1>1 DEF SameTasks, OpenOK
  <2>2. \A b : Whole(h, b) <=> Whole(g, b)
    BY DEF SameTasks, Whole
  <2> QED
    BY <1>1, <1>2, <2>1, <2>2 DEF SameTasks, GraphOK, Sound, Barriers
<1>8. \A c : activeTask(h, c) = activeTask(g, c)
  BY DEF SameTasks, activeTask
<1>9. ASSUME NEW c PROVE Calm(g, h, c, A)
  <2>1. \A d : (Inside(h, d) <=> Inside(g, d)) /\ (Awaiting(h, d) <=> Awaiting(g, d))
    BY <1>2 DEF SameTasks, Inside, Awaiting
  <2> QED
    BY <1>1, <1>8, <2>1 DEF SameTasks, Calm, Sees, Frozen
<1> QED
  BY <1>3, <1>4, <1>5, <1>6, <1>7, <1>8, <1>9

\* The owners of addresses are kept if no sync is released.
LEMMA OwnersStay ==
  ASSUME NEW g, NEW h, NEW c, NEW A, IsGraph(g), Numbered(g), Owners(g),
         Quiet(g, h, c, A), SyncsStay(g, h, NoTask)
  PROVE  Owners(h)
<1>1. h.owner = g.owner /\ Grows(g, h) /\ Released(g, h)
  BY DEF Quiet
<1>2. ASSUME NEW a \in Addr, g.owner[a] # NoTask
      PROVE  g.owner[a] \in h.held[g.owner[a][1]] /\ Type(h, g.owner[a]) = "sync"
  <2> DEFINE o == g.owner[a]
  <2>1. o \in TaskId /\ o[1] \in Context /\ o \in g.held[o[1]] /\ Type(g, o) = "sync"
    BY <1>2 DEF Owners, IsGraph, TaskId
  <2>2. o \in DOMAIN g.tasks /\ o \notin g.queued
    BY <2>1 DEF IsGraph, Numbered
  <2> HIDE DEF o
  <2>3. o \notin h.queued
    BY <1>2, <2>1, <2>2 DEF SyncsStay, o
  <2>4. o \in h.held[o[1]] /\ Type(h, o) = "sync"
    BY <1>1, <2>1, <2>2, <2>3 DEF Released, Grows
  <2> QED
    BY <2>4 DEF o
<1> QED
  BY <1>1, <1>2 DEF Owners

\* The types of the last tasks, if that of c is known.
LEMMA SettledStays ==
  ASSUME NEW g, NEW h, NEW c, NEW A \in SUBSET Context, Settled(g, A), Sees(g, h, c, A),
         c \in A => Settled(h, {c})
  PROVE  Settled(h, A)
<1>1. ASSUME NEW d \in A
      PROVE  /\ Type(h, activeTask(h, d)) \in {"basic_blocks", "create", "join"}
             /\ Inside(h, d) => Type(h, activeTask(h, d)) = "basic_blocks"
  <2>1. CASE d = c
    BY <2>1 DEF Settled
  <2>2. CASE d # c
    BY <2>2 DEF Settled, Sees
  <2> QED
    BY <2>1, <2>2
<1> QED
  BY <1>1 DEF Settled

\* What a quiet step means: the graph stays sound, and the type of c's last task.
LEMMA MovedSeen ==
  ASSUME NEW g, NEW h, NEW c, NEW A, NEW J, NEW t, NEW n, Current(g, c, A, J, t),
         Moved(g, h, c, A, J, n), Settled(g, A), Type(h, n) \in {"basic_blocks", "create", "join"}
  PROVE  /\ GraphOK(h, A, J) /\ Calm(g, h, c, A) /\ Settled(h, A)
         /\ Type(h, activeTask(h, c)) = Type(h, n)
<1>1. Current(h, c, A, J, n) /\ Quiet(g, h, c, A)
  BY DEF Moved
<1>2. /\ A \in SUBSET Context /\ c \in Context /\ GraphOK(g, A, J) /\ GraphOK(h, A, J)
      /\ activeTask(h, c) = n /\ ~Inside(h, c)
  BY <1>1, CurrentFacts
<1>3. Calm(g, h, c, A)
  BY <1>1, <1>2, QuietCalm
<1>4. Settled(h, A)
  <2>1. Settled(h, {c}) /\ Sees(g, h, c, A)
    BY <1>2, <1>3 DEF Settled, Calm
  <2> QED
    BY <1>2, <2>1, SettledStays
<1> QED
  BY <1>2, <1>3, <1>4

-----------------------------------------------------------------------------
(***************************************************************************)
(* The events, one by one.                                                 *)
(***************************************************************************)
Fine(g, A, J) == GraphOK(g, A, J) /\ Settled(g, A) /\ Owners(g)

\* A task that gets too long is a basic-block task, which no join waits for.
LEMMA SplitOK ==
  ASSUME NEW g, NEW c, NEW A, NEW J, NEW t, Current(g, c, A, J, t), Type(g, t) = "basic_blocks"
  PROVE  LET h == Split(g, c)
         IN  \E n : /\ Moved(g, h, c, A, J, n) /\ SyncsStay(g, h, NoTask)
                    /\ Type(h, n) = "basic_blocks"
<1> DEFINE n == getNext(t)
           m == Follow(g, t, "basic_blocks")
           h == Release(m, t)
<1>1. /\ activeTask(g, c) = t /\ t \in g.held[c] /\ t \in DOMAIN g.tasks
      /\ IsGraph(g) /\ t # NoTask
  <2>1. activeTask(g, c) = t /\ t \in g.held[c] /\ t \in DOMAIN g.tasks /\ IsGraph(g)
    BY CurrentFacts
  <2> QED
    BY <2>1, TaskFacts
<1>2. Split(g, c) = h
  BY <1>1 DEF Split, createBasicBlockContinuation
<1>3. /\ Moved(g, m, c, A, J, n) /\ Type(m, n) = "basic_blocks"
      /\ n \notin DOMAIN g.tasks /\ m.queued = g.queued
      /\ \A d \in Context : \A u \in g.held[d] : u \in m.held[d]
  BY FollowOK DEF Types
<1> HIDE DEF n, m
<1>4. Current(m, c, A, J, n) /\ Sound(m, J) /\ c \in Context
  BY <1>3, CurrentFacts DEF Moved
<1>5. t \in m.held[c] /\ t # n /\ Type(m, t) = "basic_blocks"
  BY <1>1, <1>3, <1>4 DEF Moved, Quiet, Grows
<1>6. \A d \in Context : m.joins[d] # t
  BY <1>1, <1>4, <1>5, NoneWaits
<1>7. Moved(m, h, c, A, J, n) /\ SyncsStay(m, h, t) /\ h.tasks = m.tasks
  BY <1>4, <1>5, <1>6, ReleaseOlder
<1> HIDE DEF h
<1>8. SyncsStay(g, m, NoTask) /\ SyncsStay(m, h, NoTask)
  BY <1>3, <1>5, <1>7 DEF SyncsStay
<1>9. Moved(g, h, c, A, J, n) /\ SyncsStay(g, h, NoTask)
  BY <1>3, <1>7, <1>8, MovedTwice
<1>10. Type(h, n) = "basic_blocks"
  BY <1>3, <1>7 DEF Type
<1> QED
  BY <1>2, <1>9, <1>10

LEMMA BlockMoves ==
  ASSUME NEW g, NEW c, NEW A, NEW J, NEW t, Current(g, c, A, J, t), NEW long
  PROVE  LET h == Block(g, c, long)
         IN  \E n : /\ Moved(g, h, c, A, J, n) /\ SyncsStay(g, h, NoTask)
                    /\ Type(h, n) = "basic_blocks"
<1> DEFINE m == NextBlock(g, c)
<1>1. PICK n : /\ Moved(g, m, c, A, J, n) /\ SyncsStay(g, m, NoTask)
               /\ Type(m, n) = "basic_blocks"
  BY NextBlockOK
<1>2. CASE ~long
  BY <1>1, <1>2 DEF Block
<1>3. CASE long
  <2> DEFINE h == Split(m, c)
  <2>1. Block(g, c, long) = h
    BY <1>3 DEF Block
  <2> HIDE DEF m
  <2>2. PICK k : /\ Moved(m, h, c, A, J, k) /\ SyncsStay(m, h, NoTask)
                 /\ Type(h, k) = "basic_blocks"
    BY <1>1, SplitOK DEF Moved
  <2> HIDE DEF h
  <2>3. Moved(g, h, c, A, J, k) /\ SyncsStay(g, h, NoTask)
    BY <1>1, <2>2, MovedTwice
  <2> QED
    BY <2>1, <2>2, <2>3
<1> QED
  BY <1>2, <1>3

LEMMA BlockOK ==
  ASSUME NEW g, NEW c, NEW A, NEW J, NEW t, Current(g, c, A, J, t), Fine(g, A, J), NEW long
  PROVE  LET h == Block(g, c, long)
         IN  /\ Fine(h, A, J) /\ Calm(g, h, c, A)
             /\ h.creators = g.creators /\ h.joins = g.joins /\ h.exited = g.exited
             /\ Type(h, activeTask(h, c)) = "basic_blocks"
<1> DEFINE h == Block(g, c, long)
<1>1. PICK n : /\ Moved(g, h, c, A, J, n) /\ SyncsStay(g, h, NoTask)
               /\ Type(h, n) = "basic_blocks"
  BY BlockMoves
<1> HIDE DEF h
<1>2. /\ GraphOK(h, A, J) /\ Calm(g, h, c, A) /\ Settled(h, A)
      /\ Type(h, activeTask(h, c)) = Type(h, n)
  BY <1>1, MovedSeen DEF Fine
<1>3. Owners(h)
  <2>1. IsGraph(g) /\ Numbered(g) /\ Owners(g) /\ Quiet(g, h, c, A)
    BY <1>1, CurrentFacts DEF Fine, Moved
  <2> QED
    BY <1>1, <2>1, OwnersStay
<1>4. h.creators = g.creators /\ h.joins = g.joins /\ h.exited = g.exited
  BY <1>1 DEF Moved, Quiet
<1> QED
  BY <1>1, <1>2, <1>3, <1>4 DEF Fine, h

\* The active task is followed by one that is yet to come.
LEMMA SuccessorOK ==
  ASSUME NEW g, NEW c, NEW A, NEW J, NEW t, Current(g, c, A, J, t), NEW x \in TaskId
  PROVE  LET h == [g EXCEPT !.tasks[t].succ = @ \cup {x}]
         IN  /\ Moved(g, h, c, A, J, t) /\ SyncsStay(g, h, NoTask)
             /\ Type(h, t) = Type(g, t) /\ x \in h.tasks[t].succ
<1> DEFINE T == [type : Types, pred : SUBSET TaskId, succ : SUBSET TaskId]
           f == [g.tasks EXCEPT ![t].succ = @ \cup {x}]
           h == [g EXCEPT !.tasks[t].succ = @ \cup {x}]
<1>1. /\ A \in SUBSET Context /\ J \in SUBSET Context /\ c \in Context \ J
      /\ GraphOK(g, A, J) /\ IsActive(g, c, t) /\ ~Inside(g, c) /\ Type(g, t) # "barrier"
      /\ IsGraph(g) /\ Numbered(g) /\ Sound(g, J) /\ Barriers(g)
      /\ t \in DOMAIN g.tasks /\ t \notin g.queued
  BY CurrentFacts
<1>2. /\ h.tasks = f
      /\ h.held = g.held /\ h.queued = g.queued /\ SameMaps(g, h) /\ h.failed = g.failed
      /\ h = [y \in GraphFields |-> h[y]]
  BY <1>1 DEF IsGraph, GraphFields, SameMaps
<1> HIDE DEF h
<1>3. g.tasks \in [DOMAIN g.tasks -> T]
  BY <1>1 DEF IsGraph
<1>4. /\ f \in [DOMAIN g.tasks -> T] /\ DOMAIN f = DOMAIN g.tasks
      /\ f[t] = [g.tasks[t] EXCEPT !.succ = @ \cup {x}]
      /\ \A w \in DOMAIN g.tasks \ {t} : f[w] = g.tasks[w]
  BY <1>1, <1>3
<1>5. g.tasks[t] \in T
  BY <1>1, <1>3
<1> HIDE DEF f
<1>6. /\ f[t].type = g.tasks[t].type /\ f[t].pred = g.tasks[t].pred
      /\ f[t].succ = g.tasks[t].succ \cup {x}
  BY <1>4, <1>5
<1>7. \A w \in DOMAIN g.tasks : /\ f[w].type = g.tasks[w].type /\ f[w].pred = g.tasks[w].pred
                                /\ g.tasks[w].succ \subseteq f[w].succ
  BY <1>4, <1>6
<1>8. IsGraph(h)
  BY <1>1, <1>2, <1>4 DEF IsGraph, SameMaps
<1>9. Numbered(h)
  BY <1>1, <1>2, <1>4, <1>7 DEF Numbered, Type
<1>10. \A b \in Open(g) : h.tasks[b] = g.tasks[b]
  <2>1. \A b \in Open(g) : b \in DOMAIN g.tasks /\ Type(g, b) = "barrier"
    BY <1>1 DEF Barriers, OpenOK
  <2> QED
    BY <1>1, <1>2, <1>4, <2>1
<1>11. ASSUME NEW d, NEW w, IsActive(g, d, w) PROVE IsActive(h, d, w)
  <2>1. Open(h) = Open(g)
    BY <1>2 DEF Open, SameMaps
  <2>2. \A b \in Open(g) : Within(h, b, d) <=> Within(g, b, d)
    BY <1>10 DEF Within
  <2> QED
    BY <1>2, <1>4, <1>11, <2>1, <2>2 DEF IsActive
<1>12. Quiet(g, h, c, A)
  <2>1. Grows(g, h)
    BY <1>1, <1>2, <1>4, <1>7 DEF Grows, Type
  <2>2. Released(g, h)
    <3>1. \A d \in Context : h.held[d] \cap DOMAIN g.tasks = g.held[d] \ h.queued
      BY <1>1, <1>2 DEF Numbered, IsGraph
    <3> QED
      BY <3>1, <1>2 DEF Released
  <2> QED
    BY <1>2, <1>4, <1>11, <2>1, <2>2 DEF Quiet, SameMaps
<1>13. GraphOK(h, A, J)
  BY <1>1, <1>8, <1>9, <1>11, <1>12, QuietOK
<1>14. ~Inside(h, c)
  BY <1>1, <1>8, <1>12, QuietBarriers
<1>15. Type(h, t) = Type(g, t) /\ x \in h.tasks[t].succ
  BY <1>2, <1>6 DEF Type
<1>16. SyncsStay(g, h, NoTask)
  BY <1>2 DEF SyncsStay
<1> QED
  BY <1>1, <1>11, <1>12, <1>13, <1>14, <1>15, <1>16 DEF Moved, Current, h

LEMMA CreateOK ==
  ASSUME NEW g, NEW c, NEW A, NEW J, NEW t, Current(g, c, A, J, t), Fine(g, A, J),
         c \notin g.exited, NEW child \in Context, creator[child] = c
  PROVE  LET h == Create(g, c, child)
         IN  /\ Fine(h, A, J) /\ Calm(g, h, c, A)
             /\ h.creators[child] # NoTask
             /\ \A d \in Context \ {child} : h.creators[d] = g.creators[d]
             /\ h.joins = g.joins /\ h.exited = g.exited
             /\ Type(h, activeTask(h, c)) = "create"
<1> DEFINE m == Merge(g, c, "create")
           n == activeTask(m, c)
           k == [m EXCEPT !.tasks[n].succ = @ \cup {<<child, 0>>}]
           h == Create(g, c, child)
<1>1. PICK u : /\ Moved(g, m, c, A, J, u) /\ SyncsStay(g, m, NoTask)
               /\ Type(m, u) = "create"
  BY MergeOK DEF Types
<1>2. h = [k EXCEPT !.creators[child] = n]
  BY DEF Create
<1> HIDE DEF m, h
<1>3. Current(m, c, A, J, u) /\ n = u /\ Type(m, n) = "create"
  BY <1>1, CurrentFacts DEF Moved
<1>4. /\ Moved(m, k, c, A, J, n) /\ SyncsStay(m, k, NoTask)
      /\ Type(k, n) = Type(m, n) /\ <<child, 0>> \in k.tasks[n].succ
  <2>1. <<child, 0>> \in TaskId
    BY DEF TaskId
  <2> QED
    BY <1>3, <2>1, SuccessorOK
<1> HIDE DEF n, k
<1>5. Moved(g, k, c, A, J, n) /\ SyncsStay(g, k, NoTask)
  BY <1>1, <1>3, <1>4, MovedTwice
<1>6. /\ GraphOK(k, A, J) /\ Calm(g, k, c, A) /\ Settled(k, A)
      /\ Type(k, activeTask(k, c)) = "create"
  BY <1>3, <1>4, <1>5, MovedSeen DEF Fine
<1>7. Owners(k)
  <2>1. IsGraph(g) /\ Numbered(g) /\ Owners(g) /\ Quiet(g, k, c, A)
    BY <1>5, CurrentFacts DEF Fine, Moved
  <2> QED
    BY <1>5, <2>1, OwnersStay
<1>8. /\ IsGraph(k) /\ Sound(k, J) /\ Current(k, c, A, J, n)
      /\ k.creators = g.creators /\ k.joins = g.joins /\ k.exited = g.exited
  BY <1>5, <1>6 DEF Moved, Quiet, GraphOK
<1>9. n \in DOMAIN k.tasks /\ n \in TaskId /\ n # NoTask /\ n[1] = c
  <2>1. n \in DOMAIN k.tasks /\ n[1] = c
    BY <1>8, CurrentFacts
  <2> QED
    BY <1>8, <2>1, TaskFacts
<1>10. /\ SameTasks(k, h) /\ h.joins = k.joins /\ h.exited = k.exited /\ h.owner = k.owner
       /\ h.creators = [k.creators EXCEPT ![child] = n] /\ h.failed = k.failed
       /\ h = [f \in GraphFields |-> h[f]]
  BY <1>2, <1>8 DEF IsGraph, GraphFields, SameTasks
<1>11. /\ h.creators[child] = n
       /\ \A d \in Context \ {child} : h.creators[d] = g.creators[d]
       /\ h.creators \in [Context -> TaskId \cup {NoTask}]
  BY <1>8, <1>9, <1>10 DEF IsGraph
<1>12. IsGraph(h)
  BY <1>8, <1>10, <1>11 DEF IsGraph, SameTasks
<1>13. /\ Numbered(h) /\ Actives(h, A) /\ Joinings(h, J) /\ Barriers(h)
       /\ Calm(k, h, c, A) /\ activeTask(h, c) = activeTask(k, c)
  BY <1>6, <1>10, SameTasksOK
<1>14. \A w, d : Type(h, w) = Type(k, w) /\ (Forks(h, w, d) <=> Forks(k, w, d))
  BY <1>10 DEF Type, Forks, SameTasks
<1>15. Joins(h) /\ Owners(h)
  BY <1>7, <1>8, <1>10, <1>14 DEF Sound, Joins, Owners, SameTasks
<1>16. Creators(h)
  <2>1. Forks(h, n, child)
    BY <1>3, <1>4, <1>9, <1>14 DEF Forks
  <2>2. \A d \in Context : h.creators[d] # NoTask => Forks(h, h.creators[d], d)
    BY <1>8, <1>11, <1>14, <2>1 DEF Sound, Creators
  <2>3. \A d \in Context \ {0} : <<d, 0>> \in DOMAIN h.tasks =>
          \E w \in DOMAIN h.tasks : Forks(h, w, d) /\ h.tasks[<<d, 0>>].pred = {w}
    BY <1>8, <1>10, <1>14 DEF Sound, Creators, SameTasks
  <2> QED
    BY <2>2, <2>3 DEF Creators
<1>17. Calm(g, h, c, A)
  BY <1>6, <1>13, CalmTwice
<1>18. Settled(h, A)
  <2>1. Settled(h, {c})
    <3>1. Type(h, activeTask(h, c)) = "create" /\ ~Inside(h, c)
      BY <1>6, <1>8, <1>13, <1>14, CurrentFacts DEF Calm
    <3> QED
      BY <3>1 DEF Settled
  <2>2. A \in SUBSET Context /\ Sees(k, h, c, A)
    BY <1>8, <1>13, CurrentFacts DEF Calm
  <2> QED
    BY <1>6, <2>1, <2>2, SettledStays
<1>19. GraphOK(h, A, J)
  BY <1>12, <1>13, <1>15, <1>16 DEF GraphOK, Sound
<1> QED
  BY <1>6, <1>8, <1>9, <1>10, <1>11, <1>13, <1>14, <1>15, <1>17, <1>18, <1>19 DEF Fine, h

\* The edge from the last sync on an address, which is then released.
LEMMA OwnerReleased ==
  ASSUME NEW g, NEW c, NEW A, NEW J, NEW t, Current(g, c, A, J, t), Settled(g, A),
         NEW o \in DOMAIN g.tasks, NEW s \in DOMAIN g.tasks, o # s, s[2] # 0, o # t,
         Type(g, o) = "sync", o \in g.held[o[1]], Type(g, s) = "sync", s \in g.held[c]
  PROVE  LET h == Release(Edge(g, o, s), o)
         IN  /\ Moved(g, h, c, A, J, t) /\ SyncsStay(g, h, o)
             /\ Type(h, t) = Type(g, t) /\ Type(h, s) = "sync" /\ s \in h.held[c]
<1> DEFINE m == Edge(g, o, s)
           h == Release(m, o)
<1>1. /\ A \in SUBSET Context /\ J \in SUBSET Context /\ c \in Context \ J
      /\ GraphOK(g, A, J) /\ IsActive(g, c, t) /\ ~Inside(g, c) /\ Type(g, t) # "barrier"
      /\ IsGraph(g) /\ Numbered(g) /\ Sound(g, J) /\ Barriers(g)
      /\ t \in DOMAIN g.tasks
  BY CurrentFacts
<1>2. o[1] \in Context /\ o # NoTask
  BY <1>1, TaskFacts
<1>3. o \notin g.queued /\ s \notin g.queued
  BY <1>1, <1>2 DEF Numbered
<1>4. /\ GraphOK(m, A, J) /\ Quiet(g, m, c, A)
      /\ \A d, w : IsActive(g, d, w) => IsActive(m, d, w)
  <2>1. c \notin J /\ Type(g, o) # "barrier" /\ Type(g, s) # "barrier"
    BY <1>1
  <2> QED
    BY <1>1, <1>3, <2>1, EdgeOK
<1>5. IsEdge(g, m, o, s)
  BY <1>1, EdgeIs
<1> HIDE DEF m
<1>6. /\ o \in DOMAIN m.tasks /\ o \in m.held[o[1]] /\ Type(m, o) = "sync"
      /\ s \in m.held[c] /\ Type(m, s) = "sync" /\ m.queued = g.queued
      /\ t \in DOMAIN m.tasks /\ Type(m, t) = Type(g, t)
  BY <1>1, <1>5 DEF IsEdge
<1>7. IsGraph(m) /\ Numbered(m) /\ Sound(m, J) /\ Barriers(m) /\ IsActive(m, c, t)
  BY <1>1, <1>4 DEF GraphOK, Sound
<1>8. ASSUME o[1] \in A, IsActive(m, o[1], o) PROVE FALSE
  <2>1. activeTask(m, o[1]) = o
    BY <1>2, <1>7, <1>8, ActiveIs
  <2>2. CASE o[1] = c
    <3>1. activeTask(m, c) = t
      BY <1>1, <1>7, ActiveIs
    <3> QED
      BY <2>1, <2>2, <3>1
  <2>3. CASE o[1] # c
    <3>1. Calm(g, m, c, A)
      BY <1>1, <1>4, QuietCalm
    <3>2. Type(m, activeTask(m, o[1])) \in {"basic_blocks", "create", "join"}
      BY <1>8, <2>3, <3>1 DEF Calm, Sees, Settled
    <3> QED
      BY <1>6, <2>1, <3>2
  <2> QED
    BY <2>2, <2>3
<1>9. o \notin Open(m)
  BY <1>6, <1>7 DEF Barriers, OpenOK
<1>10. \A d \in Context : m.joins[d] # o
  <2>1. Type(m, o) # "join"
    BY <1>6
  <2> QED
    BY <1>2, <1>7, <2>1, NoneWaits
<1>11. /\ GraphOK(h, A, J) /\ Quiet(m, h, c, A)
       /\ \A d \in Context : \A u : u # o /\ IsActive(m, d, u) => IsActive(h, d, u)
  <2>1. o[1] \in A => ~IsActive(m, o[1], o)
    BY <1>8
  <2>2. c \notin J
    BY <1>1
  <2> QED
    BY <1>1, <1>4, <1>6, <1>9, <1>10, <2>1, <2>2, ReleaseOK
<1>12. /\ h.tasks = m.tasks /\ h.queued = m.queued \cup {o}
       /\ h.held = [m.held EXCEPT ![o[1]] = @ \ {o}]
  BY <1>6, <1>7, <1>10, ReleaseIs, SMTT(60)
<1> HIDE DEF h
<1>13. Quiet(g, h, c, A)
  BY <1>4, <1>11, QuietTwice
<1>14. ~Inside(h, c)
  <2>1. IsGraph(h)
    BY <1>11 DEF GraphOK
  <2> QED
    BY <1>1, <1>13, <2>1, QuietBarriers
<1>15. IsActive(h, c, t)
  BY <1>1, <1>7, <1>11
<1>16. Type(h, t) = Type(g, t) /\ Type(h, s) = "sync" /\ s \in h.held[c]
  BY <1>1, <1>2, <1>6, <1>7, <1>12 DEF Type, IsGraph
<1>17. SyncsStay(g, h, o)
  BY <1>6, <1>12 DEF SyncsStay
<1> QED
  BY <1>1, <1>11, <1>13, <1>14, <1>15, <1>16, <1>17 DEF Moved, Current, h, m

LEMMA OwnerSetOK ==
  ASSUME NEW g, NEW c, NEW A, NEW J, GraphOK(g, A, J), NEW s \in TaskId, NEW a \in Addr
  PROVE  LET h == [g EXCEPT !.owner[a] = s]
         IN  /\ GraphOK(h, A, J) /\ Calm(g, h, c, A)
             /\ h.creators = g.creators /\ h.joins = g.joins /\ h.exited = g.exited
             /\ h.owner = [g.owner EXCEPT ![a] = s]
             /\ SameTasks(g, h)
             /\ activeTask(h, c) = activeTask(g, c)
<1> DEFINE h == [g EXCEPT !.owner[a] = s]
<1>1. IsGraph(g) /\ Sound(g, J)
  BY DEF GraphOK
<1>2. /\ SameTasks(g, h) /\ h.joins = g.joins /\ h.exited = g.exited
      /\ h.creators = g.creators /\ h.failed = g.failed
      /\ h.owner = [g.owner EXCEPT ![a] = s]
      /\ h = [f \in GraphFields |-> h[f]]
  BY <1>1 DEF IsGraph, GraphFields, SameTasks
<1> HIDE DEF h
<1>3. IsGraph(h)
  <2>1. h.owner \in [Addr -> TaskId \cup {NoTask}]
    BY <1>1, <1>2 DEF IsGraph
  <2> QED
    BY <1>1, <1>2, <2>1 DEF IsGraph, SameTasks
<1>4. /\ Numbered(h) /\ Actives(h, A) /\ Joinings(h, J) /\ Barriers(h)
      /\ Calm(g, h, c, A) /\ activeTask(h, c) = activeTask(g, c)
  BY <1>2, SameTasksOK
<1>5. \A w, d : Type(h, w) = Type(g, w) /\ (Forks(h, w, d) <=> Forks(g, w, d))
  BY <1>2 DEF Type, Forks, SameTasks
<1>6. Joins(h) /\ Creators(h)
  BY <1>1, <1>2, <1>5 DEF Sound, Joins, Creators, SameTasks
<1> QED
  BY <1>2, <1>3, <1>4, <1>6 DEF GraphOK, Sound, h

LEMMA SyncOK ==
  ASSUME NEW g, NEW c, NEW A, NEW J, NEW t, Current(g, c, A, J, t), Fine(g, A, J),
         c \notin g.exited, NEW a \in Addr, NEW wait \in BOOLEAN
  PROVE  LET h == Sync(g, c, a, wait)
         IN  /\ Fine(h, A, J) /\ Calm(g, h, c, A)
             /\ h.creators = g.creators /\ h.joins = g.joins /\ h.exited = g.exited
             /\ Type(h, activeTask(h, c)) = "basic_blocks"
<1> DEFINE type == IF wait THEN "wait" ELSE "sync"
           m == createContinuation(g, c, type)
           g1 == attemptBackgroundQueueTask(m, t)
           s == activeTask(g1, c)
           g2 == createBasicBlockContinuation(g1, c)
           o == g.owner[a]
           g3 == IF wait \/ o = NoTask THEN g2 ELSE Release(Edge(g2, o, s), o)
<1>1. Sync(g, c, a, wait) = IF wait THEN g3 ELSE [g3 EXCEPT !.owner[a] = s]
  BY CurrentFacts DEF Sync
<1>2. /\ type \in Types \ {"barrier"} /\ type \notin {"join", "basic_blocks"}
      /\ (~wait => type = "sync") /\ (type = "sync" => ~wait)
  BY DEF Types
<1> HIDE DEF type
<1>3. PICK n : /\ Moved(g, m, c, A, J, n) /\ SyncsStay(g, m, NoTask)
               /\ Type(m, n) = type /\ n \notin DOMAIN g.tasks /\ n \notin m.queued
               /\ t \in m.held[c] /\ t # n /\ Type(m, t) = Type(g, t)
  BY <1>2, ContinueOK
<1> HIDE DEF m
<1>4. Moved(m, g1, c, A, J, n) /\ SyncsStay(m, g1, NoTask) /\ g1.tasks = m.tasks
  <2>1. Current(m, c, A, J, n) /\ Type(m, t) # "barrier"
    BY <1>3, CurrentFacts DEF Moved
  <2> QED
    BY <1>3, <2>1, AttemptOK
<1> HIDE DEF g1
<1>5. Moved(g, g1, c, A, J, n) /\ SyncsStay(g, g1, NoTask) /\ Type(g1, n) = type
  <2>1. Moved(g, g1, c, A, J, n) /\ SyncsStay(g, g1, NoTask)
    BY <1>3, <1>4, MovedTwice
  <2> QED
    BY <1>3, <1>4, <2>1 DEF Type
<1>6. /\ Current(g1, c, A, J, n) /\ s = n /\ n \in DOMAIN g1.tasks /\ n \in g1.held[c]
      /\ n \notin g1.queued /\ c \in Context /\ n \in TaskId
  <2>1. Current(g1, c, A, J, n)
    BY <1>5 DEF Moved
  <2>2. IsGraph(g1) /\ n \in DOMAIN g1.tasks
    BY <2>1, CurrentFacts
  <2>3. n \in TaskId
    BY <2>2, TaskFacts
  <2>4. /\ activeTask(g1, c) = n /\ n \in g1.held[c] /\ n \notin g1.queued /\ c \in Context
    BY <2>1, CurrentFacts
  <2> QED
    BY <2>1, <2>2, <2>3, <2>4
<1> DEFINE u == getNext(n)
<1>7. /\ Moved(g1, g2, c, A, J, u) /\ Type(g2, u) = "basic_blocks"
      /\ u \notin DOMAIN g1.tasks /\ DOMAIN g2.tasks = DOMAIN g1.tasks \cup {u}
      /\ g2.queued = g1.queued
      /\ \A d \in Context : \A w \in g1.held[d] : w \in g2.held[d]
  <2>1. g2 = Follow(g1, n, "basic_blocks")
    BY <1>6 DEF createBasicBlockContinuation
  <2>2. "basic_blocks" \in Types \ {"barrier"}
    BY DEF Types
  <2> QED
    BY <1>6, <2>1, <2>2, FollowOK
<1> HIDE DEF s, u, g2
<1>8. Moved(g, g2, c, A, J, u) /\ SyncsStay(g, g2, NoTask)
  <2>1. SyncsStay(g1, g2, NoTask)
    BY <1>7 DEF SyncsStay
  <2> QED
    BY <1>5, <1>7, <2>1, MovedTwice
<1>9. /\ n \in g2.held[c] /\ n \in DOMAIN g2.tasks /\ Type(g2, n) = type /\ n # u
      /\ n[2] # 0
  <2>1. n \in g2.held[c] /\ n \in DOMAIN g2.tasks /\ Type(g2, n) = type /\ n # u
    BY <1>5, <1>6, <1>7 DEF Moved, Quiet, Grows
  <2>2. n[2] # 0
    BY <1>3, <1>5, <1>6 DEF Moved, Quiet
  <2> QED
    BY <2>1, <2>2
<1>10. /\ IsGraph(g) /\ Numbered(g) /\ Owners(g) /\ Quiet(g, g2, c, A)
       /\ IsGraph(g2) /\ Numbered(g2)
  BY <1>8, CurrentFacts DEF Fine, Moved
<1>11. Owners(g2) /\ g2.owner = g.owner
  <2>1. Owners(g2)
    BY <1>8, <1>10, OwnersStay
  <2> QED
    BY <1>10, <2>1 DEF Quiet
<1>12. /\ GraphOK(g2, A, J) /\ Calm(g, g2, c, A) /\ Settled(g2, A)
       /\ Type(g2, activeTask(g2, c)) = "basic_blocks"
  BY <1>7, <1>8, MovedSeen DEF Fine
<1>13. CASE wait
  <2>1. Sync(g, c, a, wait) = g2
    BY <1>1, <1>13
  <2> QED
    BY <1>10, <1>11, <1>12, <2>1 DEF Fine, Quiet
<1>14. CASE ~wait
  <2>1. /\ Moved(g, g3, c, A, J, u) /\ Type(g3, u) = "basic_blocks"
        /\ n \in g3.held[c] /\ Type(g3, n) = "sync"
        /\ \A b \in Addr \ {a} : g.owner[b] # NoTask =>
              g.owner[b] \in g3.held[g.owner[b][1]] /\ Type(g3, g.owner[b]) = "sync"
    <3>1. CASE o = NoTask
      <4>1. g3 = g2
        BY <3>1
      <4> QED
        BY <1>2, <1>7, <1>8, <1>9, <1>11, <1>14, <4>1 DEF Owners
    <3>2. CASE o # NoTask
      <4>1. g3 = Release(Edge(g2, o, n), o)
        BY <1>6, <1>14, <3>2
      <4>2. o \in TaskId /\ o \in g.held[o[1]] /\ o \in g2.held[o[1]] /\ Type(g2, o) = "sync"
        <5>1. o \in TaskId /\ o \in g.held[o[1]]
          BY <1>10, <3>2, ZenonT(60) DEF IsGraph, Owners
        <5>2. o \in g2.held[o[1]] /\ Type(g2, o) = "sync"
          BY <1>11, <3>2 DEF Owners
        <5> QED
          BY <5>1, <5>2
      <4>3. o \in DOMAIN g.tasks /\ o \in DOMAIN g2.tasks
        BY <1>10, <4>2 DEF IsGraph, TaskId
      <4>4. o # n /\ o # u
        BY <1>3, <1>7, <4>2, <4>3
      <4>5. /\ Moved(g2, g3, c, A, J, u) /\ SyncsStay(g2, g3, o)
            /\ Type(g3, u) = Type(g2, u) /\ Type(g3, n) = "sync" /\ n \in g3.held[c]
        <5> HIDE DEF o, g3
        <5>1. Current(g2, c, A, J, u) /\ Type(g2, n) = "sync"
          BY <1>2, <1>8, <1>9, <1>14 DEF Moved
        <5> QED
          BY <1>9, <1>12, <4>1, <4>2, <4>3, <4>4, <5>1, OwnerReleased
      <4> HIDE DEF g3
      <4>6. Quiet(g, g3, c, A) /\ Current(g3, c, A, J, u) /\ Quiet(g2, g3, c, A)
        BY <1>8, <4>5, QuietTwice DEF Moved
      <4>7. ASSUME NEW b \in Addr \ {a}, g.owner[b] # NoTask
            PROVE  g.owner[b] \in g3.held[g.owner[b][1]] /\ Type(g3, g.owner[b]) = "sync"
        <5> DEFINE w == g.owner[b]
        <5>1. w # o
          BY <1>11, <4>7 DEF Fine, Owners
        <5>2. w \in g2.held[w[1]] /\ Type(g2, w) = "sync" /\ w \in TaskId
          <6>1. w \in g2.held[w[1]] /\ Type(g2, w) = "sync"
            BY <1>11, <4>7 DEF Owners
          <6>2. g.owner \in [Addr -> TaskId \cup {NoTask}]
            BY <1>10 DEF IsGraph
          <6> QED
            BY <4>7, <6>1, <6>2
        <5>3. w[1] \in Context
          BY <5>2 DEF TaskId
        <5> HIDE DEF w, o
        <5>4. w \in DOMAIN g2.tasks /\ w \notin g2.queued
          BY <1>10, <5>2, <5>3 DEF IsGraph, Numbered
        <5>5. w \notin g3.queued
          BY <4>5, <5>1, <5>2, <5>4 DEF SyncsStay
        <5>6. w \in g3.held[w[1]] /\ Type(g3, w) = "sync"
          BY <4>6, <5>2, <5>3, <5>4, <5>5 DEF Quiet, Released, Grows
        <5> QED
          BY <5>6 DEF w
      <4> QED
        BY <1>7, <4>5, <4>6, <4>7 DEF Moved
    <3> QED
      BY <3>1, <3>2
  <2> DEFINE h == [g3 EXCEPT !.owner[a] = n]
  <2>2. Sync(g, c, a, wait) = h
    BY <1>1, <1>6, <1>14
  <2> HIDE DEF g3, o
  <2>3. /\ GraphOK(g3, A, J) /\ Calm(g, g3, c, A) /\ Settled(g3, A)
        /\ Type(g3, activeTask(g3, c)) = "basic_blocks"
    BY <2>1, MovedSeen DEF Fine
  <2>4. /\ GraphOK(h, A, J) /\ Calm(g3, h, c, A)
        /\ h.creators = g3.creators /\ h.joins = g3.joins /\ h.exited = g3.exited
        /\ h.owner = [g3.owner EXCEPT ![a] = n]
        /\ SameTasks(g3, h)
        /\ activeTask(h, c) = activeTask(g3, c)
    BY <1>6, <2>3, OwnerSetOK
  <2> HIDE DEF h
  <2>5. Quiet(g, g3, c, A) /\ Current(g3, c, A, J, u)
    BY <2>1 DEF Moved
  <2>6. \A w : Type(h, w) = Type(g3, w)
    BY <2>4 DEF SameTasks, Type
  <2>7. g3.owner = g.owner /\ g.owner \in [Addr -> TaskId \cup {NoTask}]
    BY <1>10, <2>5 DEF Quiet, IsGraph
  <2>8. /\ h.owner[a] = n /\ \A b \in Addr \ {a} : h.owner[b] = g.owner[b]
    BY <2>4, <2>7
  <2>9. n[1] = c
    BY <1>6, CurrentFacts
  <2>10. \A b \in Addr : g.owner[b] # n
    <3>1. ASSUME NEW b \in Addr, g.owner[b] # NoTask PROVE g.owner[b] \in DOMAIN g.tasks
      <4>1. g.owner[b] \in g.held[g.owner[b][1]] /\ g.owner[b][1] \in Context
        BY <1>10, <2>7, <3>1 DEF Owners, TaskId
      <4> QED
        BY <1>10, <4>1 DEF IsGraph
    <3>2. n # NoTask
      BY <1>6, CurrentFacts, TaskFacts
    <3> QED
      BY <1>3, <3>1, <3>2
  <2>11. Owners(h)
    <3>1. ASSUME NEW b \in Addr, h.owner[b] # NoTask
          PROVE  h.owner[b] \in h.held[h.owner[b][1]] /\ Type(h, h.owner[b]) = "sync"
      <4>1. h.held = g3.held
        BY <2>4 DEF SameTasks
      <4>2. CASE b = a
        BY <2>1, <2>6, <2>8, <2>9, <4>1, <4>2
      <4>3. CASE b # a
        <5>1. h.owner[b] = g.owner[b]
          BY <2>8, <4>3
        <5>2. g.owner[b] \in g3.held[g.owner[b][1]] /\ Type(g3, g.owner[b]) = "sync"
          BY <2>1, <3>1, <4>3, <5>1
        <5> QED
          BY <2>6, <4>1, <5>1, <5>2
      <4> QED
        BY <4>2, <4>3
    <3>2. ASSUME NEW b \in Addr, NEW d \in Addr, h.owner[b] = h.owner[d], h.owner[b] # NoTask
          PROVE  b = d
      <4>1. CASE b = a /\ d = a
        BY <4>1
      <4>2. CASE b = a /\ d # a
        BY <2>8, <2>10, <3>2, <4>2
      <4>3. CASE b # a /\ d = a
        BY <2>8, <2>10, <3>2, <4>3
      <4>4. CASE b # a /\ d # a
        <5>1. g.owner[b] = g.owner[d] /\ g.owner[b] # NoTask
          BY <2>8, <3>2, <4>4
        <5> QED
          BY <1>10, <5>1 DEF Owners
      <4> QED
        BY <4>1, <4>2, <4>3, <4>4
    <3> QED
      BY <3>1, <3>2 DEF Owners
  <2>12. Settled(h, A)
    <3>1. Type(h, activeTask(h, c)) = "basic_blocks"
      BY <2>3, <2>4, <2>6
    <3>2. Settled(h, {c}) /\ A \in SUBSET Context /\ Sees(g3, h, c, A)
      BY <2>4, <2>5, <3>1, CurrentFacts DEF Settled, Calm
    <3> QED
      BY <2>3, <3>2, SettledStays
  <2>13. Calm(g, h, c, A)
    BY <2>3, <2>4, CalmTwice
  <2>14. h.creators = g.creators /\ h.joins = g.joins /\ h.exited = g.exited
    BY <2>4, <2>5 DEF Quiet
  <2> QED
    BY <2>2, <2>3, <2>4, <2>6, <2>11, <2>12, <2>13, <2>14 DEF Fine
<1> QED
  BY <1>13, <1>14

LEMMA FewerActive ==
  ASSUME NEW g, NEW h, NEW c, NEW A, NEW J, NEW B \in SUBSET A
  PROVE  /\ Quiet(g, h, c, A) => Quiet(g, h, c, B)
         /\ GraphOK(g, A, J) => GraphOK(g, B, J)
BY DEF Quiet, GraphOK, Actives

\* The last task k of d has its edge to join task j and is released.
IsLast(g, d, k, j) ==
    /\ d \in Context /\ IsActive(g, d, k) /\ ~Inside(g, d)
    /\ Type(g, k) \in {"basic_blocks", "create"}
    /\ j \in g.tasks[k].succ /\ j[1] = creator[d] /\ j \in DOMAIN g.tasks
    /\ Type(g, j) = "join"

Ends(g, h, c, A, J, d) ==
    /\ GraphOK(h, A \ {d}, J \cup {d}) /\ Quiet(g, h, c, A \ {d})
    /\ SyncsStay(g, h, NoTask)
    /\ \A e \in Context \ {d} : \A u : IsActive(g, e, u) => IsActive(h, e, u)
    /\ \A u \in DOMAIN g.tasks : Type(h, u) = Type(g, u)

LEMMA LastReleased ==
  ASSUME NEW g, NEW c, NEW A, NEW J, A \in SUBSET Context, J \in SUBSET Context,
         GraphOK(g, A, J), c \notin J, NEW d, NEW k, NEW j, IsLast(g, d, k, j)
  PROVE  Ends(g, Release(g, k), c, A, J, d)
<1> DEFINE B == A \ {d}
           h == Release(g, k)
<1>0. /\ d \in Context /\ IsActive(g, d, k) /\ ~Inside(g, d)
      /\ Type(g, k) \in {"basic_blocks", "create"}
      /\ j \in g.tasks[k].succ /\ j[1] = creator[d] /\ j \in DOMAIN g.tasks
      /\ Type(g, j) = "join"
  BY DEF IsLast
<1>1. IsGraph(g) /\ Numbered(g) /\ Sound(g, J) /\ Barriers(g)
  BY DEF GraphOK, Sound
<1>2. k \in DOMAIN g.tasks /\ k[1] = d /\ k \in g.held[k[1]] /\ k # NoTask
  <2>1. k \in DOMAIN g.tasks /\ k[1] = d /\ k \in g.held[d]
    BY <1>0, <1>1, ActiveIs
  <2> QED
    BY <2>1, <1>1, TaskFacts
<1>3. \A e \in Context : g.joins[e] # k
  <2>1. Type(g, k) # "join"
    BY <1>0
  <2> QED
    BY <1>1, <1>2, <2>1, NoneWaits
<1>4. k \notin Open(g)
  BY <1>0, <1>1 DEF Barriers, OpenOK
<1>5. /\ GraphOK(h, B, J) /\ Quiet(g, h, c, B)
      /\ \A e \in Context : \A u : u # k /\ IsActive(g, e, u) => IsActive(h, e, u)
  <2>1. GraphOK(g, B, J) /\ B \in SUBSET Context
    BY FewerActive
  <2>2. k[1] \in B => ~IsActive(g, k[1], k)
    BY <1>2
  <2> HIDE DEF B
  <2> QED
    BY <1>0, <1>2, <1>3, <1>4, <2>1, <2>2, ReleaseOK
<1>6. h.tasks = g.tasks /\ h.queued = g.queued \cup {k}
  <2>1. IsGraph(g) /\ k \in DOMAIN g.tasks /\ k \in g.held[k[1]]
    BY <1>1, <1>2
  <2>2. /\ Release(g, k).tasks = g.tasks
        /\ Release(g, k).queued = g.queued \cup {k}
    BY <1>3, <2>1, ReleaseIs, ZenonT(60)
  <2> QED
    BY <2>2
<1> HIDE DEF h
<1>7. SyncsStay(g, h, NoTask)
  <2>1. Type(g, k) # "sync"
    BY <1>0
  <2> QED
    BY <1>6, <2>1 DEF SyncsStay
<1>8. ASSUME NEW e \in Context \ {d}, NEW u, IsActive(g, e, u) PROVE IsActive(h, e, u)
  <2>1. u[1] = e
    BY <1>1, <1>8, ActiveIs
  <2> QED
    BY <1>0, <1>2, <1>5, <1>8, <2>1
<1>9. getNext(k) \notin DOMAIN g.tasks
  <2>1. \A u \in DOMAIN g.tasks : u[1] = d => u[2] <= k[2]
    BY <1>0 DEF IsActive, Inside
  <2>2. k[2] \in Nat /\ getNext(k)[1] = d /\ getNext(k)[2] = k[2] + 1
    BY <1>1, <1>2, TaskFacts
  <2> QED
    BY <2>1, <2>2
<1>10. Joinings(h, J \cup {d})
  <2>1. Joinings(h, J)
    BY <1>5 DEF GraphOK, Sound
  <2>2. \E j1 \in h.tasks[k].succ :
            j1[1] = creator[d] /\ j1 \in DOMAIN h.tasks /\ Type(h, j1) = "join"
    BY <1>0, <1>6 DEF Type
  <2> QED
    BY <1>0, <1>2, <1>6, <1>9, <2>1, <2>2 DEF Joinings
<1>11. GraphOK(h, B, J \cup {d})
  BY <1>5, <1>10 DEF GraphOK, Sound
<1> QED
  BY <1>5, <1>6, <1>7, <1>8, <1>11 DEF h, Type, Ends

\* The join comes after the exit.
LEMMA JoinLateOK ==
  ASSUME NEW g, NEW c, NEW A, NEW J, NEW t, Current(g, c, A, J, t), Fine(g, A, J),
         c \notin g.exited, NEW child \in A \ {c}, creator[child] = c, child \in g.exited,
         ~Inside(g, child), Type(g, activeTask(g, child)) # "join"
  PROVE  LET h == Join(g, c, child)
         IN  /\ Fine(h, A \ {child}, J \cup {child}) /\ Calm(g, h, c, A \ {child})
             /\ h.creators = g.creators /\ h.joins = g.joins /\ h.exited = g.exited
             /\ Type(h, activeTask(h, c)) = "join"
<1> DEFINE B == A \ {child}
           m == Merge(g, c, "join")
           j == activeTask(m, c)
           k == activeTask(g, child)
           e == Edge(m, k, j)
           h == Release(e, k)
<1>1. Join(g, c, child) = h
  BY DEF Join
<1>2. PICK u : /\ Moved(g, m, c, A, J, u) /\ SyncsStay(g, m, NoTask)
               /\ Type(m, u) = "join"
  BY MergeOK DEF Types
<1> HIDE DEF m
<1>3. /\ A \in SUBSET Context /\ J \in SUBSET Context /\ c \in Context \ J
      /\ IsGraph(g) /\ Numbered(g) /\ Barriers(g) /\ Actives(g, A) /\ GraphOK(g, A, J)
  BY CurrentFacts DEF GraphOK
<1>4. Current(m, c, A, J, u) /\ j = u /\ Type(m, j) = "join" /\ Quiet(g, m, c, A)
  BY <1>2, CurrentFacts DEF Moved
<1> HIDE DEF j
<1>5. /\ IsGraph(m) /\ Numbered(m) /\ Barriers(m) /\ GraphOK(m, A, J)
      /\ j \in DOMAIN m.tasks /\ j[1] = c /\ j \notin m.queued /\ IsActive(m, c, j)
  BY <1>4, CurrentFacts
<1>6. IsActive(g, child, k)
  <2>1. PICK w \in g.held[child] : IsActive(g, child, w)
    BY <1>3 DEF Actives
  <2> QED
    BY <1>3, <2>1, ActiveIs
<1>7. Type(g, k) \in {"basic_blocks", "create"}
  BY DEF Fine, Settled
<1> HIDE DEF k
<1>8. IsActive(m, child, k) /\ ~Inside(m, child)
  BY <1>3, <1>4, <1>5, <1>6, QuietBarriers DEF Quiet
<1>9. k \in DOMAIN m.tasks /\ k[1] = child /\ k \notin m.queued
  BY <1>3, <1>5, <1>8, ActiveIs
<1>10. Type(m, k) = Type(g, k)
  <2>1. k \in DOMAIN g.tasks
    BY <1>3, <1>6, ActiveIs
  <2> QED
    BY <1>4, <2>1 DEF Quiet, Grows
<1>11. j[2] # 0
  <2>1. j = <<j[1], j[2]>>
    BY <1>5, TaskFacts
  <2>2. <<c, 0>> \in DOMAIN m.tasks => Type(m, <<c, 0>>) = "basic_blocks"
    BY <1>3, <1>5 DEF Numbered
  <2> QED
    BY <1>4, <1>5, <2>1, <2>2
<1>12. /\ GraphOK(e, A, J) /\ Quiet(m, e, c, A)
       /\ \A d, w : IsActive(m, d, w) => IsActive(e, d, w)
  <2>1. k # j /\ c \notin J /\ Type(m, k) # "barrier" /\ Type(m, j) # "barrier"
    BY <1>3, <1>4, <1>5, <1>7, <1>9, <1>10
  <2> QED
    BY <1>3, <1>5, <1>9, <1>11, <2>1, EdgeOK
<1>13. IsEdge(m, e, k, j)
  <2>1. k # j
    BY <1>5, <1>9
  <2> QED
    BY <1>5, <1>9, <2>1, EdgeIs
<1> HIDE DEF e
<1>14. /\ IsActive(e, child, k) /\ ~Inside(e, child) /\ IsActive(e, c, j)
       /\ Type(e, k) \in {"basic_blocks", "create"} /\ Type(e, j) = "join"
       /\ j \in e.tasks[k].succ /\ j \in DOMAIN e.tasks
  <2>1. IsGraph(e)
    BY <1>12 DEF GraphOK
  <2>2. ~Inside(e, child)
    BY <1>5, <1>8, <1>12, <2>1, QuietBarriers
  <2> QED
    BY <1>4, <1>5, <1>7, <1>8, <1>9, <1>10, <1>12, <1>13, <2>2 DEF IsEdge
<1>15. /\ GraphOK(h, B, J \cup {child}) /\ Quiet(e, h, c, B)
       /\ SyncsStay(e, h, NoTask)
       /\ \A d \in Context \ {child} : \A w : IsActive(e, d, w) => IsActive(h, d, w)
       /\ \A w \in DOMAIN e.tasks : Type(h, w) = Type(e, w)
  <2>1. j[1] = creator[child] /\ child \in Context
    BY <1>3, <1>5
  <2>2. A \in SUBSET Context /\ J \in SUBSET Context /\ c \notin J /\ GraphOK(e, A, J)
    BY <1>3, <1>12
  <2>3. IsLast(e, child, k, j)
    BY <1>14, <2>1 DEF IsLast
  <2> QED
    BY <2>2, <2>3, LastReleased, SMTT(60) DEF Ends
<1> HIDE DEF h
<1>16. Quiet(g, e, c, A) /\ Quiet(g, h, c, B)
  <2>1. Quiet(g, e, c, A)
    BY <1>4, <1>12, QuietTwice
  <2>2. Quiet(g, e, c, B)
    BY <2>1, FewerActive
  <2> QED
    BY <1>15, <2>1, <2>2, QuietTwice
<1>17. SyncsStay(g, h, NoTask)
  <2>1. \A w \in DOMAIN g.tasks : w \in DOMAIN m.tasks /\ Type(m, w) = Type(g, w)
    BY <1>4 DEF Quiet, Grows
  <2>2. \A w \in DOMAIN m.tasks : w \in DOMAIN e.tasks /\ Type(e, w) = Type(m, w)
    BY <1>13 DEF IsEdge
  <2>3. e.queued = m.queued
    BY <1>13 DEF IsEdge
  <2> QED
    BY <1>2, <1>15, <2>1, <2>2, <2>3 DEF SyncsStay
<1>18. Owners(h)
  BY <1>3, <1>16, <1>17, OwnersStay DEF Fine
<1>19. IsActive(h, c, j) /\ Type(h, j) = "join"
  BY <1>3, <1>14, <1>15
<1>20. activeTask(h, c) = j
  <2>1. IsGraph(h) /\ Numbered(h) /\ Barriers(h)
    BY <1>15 DEF GraphOK, Sound
  <2> QED
    BY <1>3, <1>19, <2>1, ActiveIs
<1>21. Calm(g, h, c, B)
  <2>1. GraphOK(g, B, J) /\ GraphOK(h, B, J \cup {child}) /\ B \in SUBSET Context
    BY <1>3, <1>15, FewerActive
  <2>2. GraphOK(h, B, J)
    BY <2>1 DEF GraphOK, Sound, Joinings
  <2> HIDE DEF B
  <2> QED
    BY <1>3, <1>16, <2>1, <2>2, QuietCalm
<1>22. Settled(h, B)
  <2>1. ~Inside(h, c)
    BY <1>21, CurrentFacts DEF Calm
  <2>2. Settled(h, {c})
    BY <1>19, <1>20, <2>1 DEF Settled
  <2>3. B \in SUBSET Context /\ Settled(g, B) /\ Sees(g, h, c, B)
    BY <1>3, <1>21 DEF Fine, Settled, Calm
  <2> HIDE DEF B
  <2> QED
    BY <2>2, <2>3, SettledStays
<1>23. h.creators = g.creators /\ h.joins = g.joins /\ h.exited = g.exited
  BY <1>16 DEF Quiet
<1> QED
  BY <1>1, <1>15, <1>18, <1>19, <1>20, <1>21, <1>22, <1>23 DEF Fine

LEMMA JoinsSetOK ==
  ASSUME NEW g, NEW A, NEW J, GraphOK(g, A, J), NEW d \in Context, NEW j,
         j = NoTask \/ (/\ j \in DOMAIN g.tasks /\ j[1] = creator[d] /\ Type(g, j) = "join"
                        /\ j \in g.held[creator[d]])
  PROVE  LET h == [g EXCEPT !.joins[d] = j]
         IN  /\ GraphOK(h, A, J) /\ SameTasks(g, h)
             /\ h.joins[d] = j /\ \A e \in Context \ {d} : h.joins[e] = g.joins[e]
             /\ h.creators = g.creators /\ h.exited = g.exited /\ h.owner = g.owner
<1> DEFINE h == [g EXCEPT !.joins[d] = j]
<1>1. IsGraph(g) /\ Sound(g, J)
  BY DEF GraphOK
<1>2. /\ SameTasks(g, h) /\ h.joins = [g.joins EXCEPT ![d] = j] /\ h.exited = g.exited
      /\ h.creators = g.creators /\ h.failed = g.failed /\ h.owner = g.owner
      /\ h = [f \in GraphFields |-> h[f]]
  BY <1>1 DEF IsGraph, GraphFields, SameTasks
<1> HIDE DEF h
<1>3. j \in TaskId \cup {NoTask}
  BY <1>1, TaskFacts
<1>4. /\ h.joins[d] = j /\ \A e \in Context \ {d} : h.joins[e] = g.joins[e]
      /\ h.joins \in [Context -> TaskId \cup {NoTask}]
  BY <1>1, <1>2, <1>3 DEF IsGraph
<1>5. IsGraph(h)
  BY <1>1, <1>2, <1>4 DEF IsGraph, SameTasks
<1>6. Numbered(h) /\ Actives(h, A) /\ Joinings(h, J) /\ Barriers(h)
  BY <1>2, SameTasksOK
<1>7. \A w, e : Type(h, w) = Type(g, w) /\ (Forks(h, w, e) <=> Forks(g, w, e))
  BY <1>2 DEF Type, Forks, SameTasks
<1>8. Creators(h)
  BY <1>1, <1>2, <1>7 DEF Sound, Creators, SameTasks
<1>9. Joins(h)
  <2>1. ASSUME NEW e \in Context, h.joins[e] # NoTask
        PROVE  /\ h.joins[e][1] = creator[e] /\ h.joins[e] \in h.held[creator[e]]
               /\ Type(h, h.joins[e]) = "join"
    <3>1. CASE e = d
      BY <1>2, <1>4, <1>7, <2>1, <3>1 DEF SameTasks
    <3>2. CASE e # d
      BY <1>1, <1>2, <1>4, <1>7, <2>1, <3>2 DEF Sound, Joins, SameTasks
    <3> QED
      BY <3>1, <3>2
  <2> QED
    BY <2>1 DEF Joins
<1> QED
  BY <1>2, <1>4, <1>5, <1>6, <1>8, <1>9 DEF GraphOK, Sound, h

\* The join comes before the exit.
LEMMA JoinEarlyOK ==
  ASSUME NEW g, NEW c, NEW A, NEW J, NEW t, Current(g, c, A, J, t), Fine(g, A, J),
         c \notin g.exited, NEW child \in Context, creator[child] = c, child \notin g.exited
  PROVE  LET h == Join(g, c, child)
         IN  /\ Fine(h, A, J) /\ Calm(g, h, c, A)
             /\ h.joins[child] # NoTask /\ \A d \in Context \ {child} : h.joins[d] = g.joins[d]
             /\ h.creators = g.creators /\ h.exited = g.exited
             /\ Type(h, activeTask(h, c)) = "join"
<1> DEFINE m == Merge(g, c, "join")
           j == activeTask(m, c)
           h == [m EXCEPT !.joins[child] = j]
<1>1. PICK u : /\ Moved(g, m, c, A, J, u) /\ SyncsStay(g, m, NoTask)
               /\ Type(m, u) = "join"
  BY MergeOK DEF Types
<1>2. Join(g, c, child) = [m EXCEPT !.joins[child] = j]
  <2>1. m.exited = g.exited
    BY <1>1 DEF Moved, Quiet
  <2> QED
    BY <2>1 DEF Join
<1> HIDE DEF m
<1>3. Current(m, c, A, J, u) /\ j = u /\ Type(m, j) = "join" /\ Quiet(g, m, c, A)
  BY <1>1, CurrentFacts DEF Moved
<1> HIDE DEF j
<1>4. /\ IsGraph(m) /\ GraphOK(m, A, J) /\ A \in SUBSET Context /\ c \in Context
      /\ j \in DOMAIN m.tasks /\ j[1] = c /\ j \in m.held[c] /\ activeTask(m, c) = j
  BY <1>3, CurrentFacts
<1>5. j # NoTask
  BY <1>4, TaskFacts
<1>6. /\ GraphOK(m, A, J) /\ Calm(g, m, c, A) /\ Settled(m, A)
  BY <1>1, <1>3, MovedSeen DEF Fine
<1>7. Owners(m)
  <2>1. IsGraph(g) /\ Numbered(g) /\ Owners(g)
    BY CurrentFacts DEF Fine
  <2> QED
    BY <1>1, <1>3, <2>1, OwnersStay
<1>8. /\ GraphOK(h, A, J) /\ SameTasks(m, h)
      /\ h.joins[child] = j /\ \A e \in Context \ {child} : h.joins[e] = m.joins[e]
      /\ h.creators = m.creators /\ h.exited = m.exited /\ h.owner = m.owner
  BY <1>3, <1>4, JoinsSetOK
<1> HIDE DEF h
<1>9. Calm(m, h, c, A) /\ activeTask(h, c) = activeTask(m, c)
  BY <1>4, <1>8, SameTasksOK
<1>10. \A w : Type(h, w) = Type(m, w)
  BY <1>8 DEF SameTasks, Type
<1>11. Owners(h)
  BY <1>7, <1>8, <1>10 DEF Owners, SameTasks
<1>12. Settled(h, A)
  <2>1. ~Inside(h, c)
    BY <1>3, <1>9, CurrentFacts DEF Calm
  <2>2. Settled(h, {c})
    BY <1>3, <1>4, <1>9, <1>10, <2>1 DEF Settled
  <2>3. Sees(m, h, c, A)
    BY <1>9 DEF Calm
  <2> QED
    BY <1>4, <1>6, <2>2, <2>3, SettledStays
<1>13. Calm(g, h, c, A)
  BY <1>6, <1>9, CalmTwice
<1>14. m.creators = g.creators /\ m.joins = g.joins /\ m.exited = g.exited
  BY <1>3 DEF Quiet
<1> QED
  BY <1>2, <1>3, <1>4, <1>5, <1>8, <1>9, <1>10, <1>11, <1>12, <1>13, <1>14 DEF Fine, h

LEMMA ExitedSetOK ==
  ASSUME NEW g, NEW A, NEW J, GraphOK(g, A, J), NEW d \in Context
  PROVE  LET h == [g EXCEPT !.exited = @ \cup {d}]
         IN  /\ GraphOK(h, A, J) /\ SameTasks(g, h) /\ h.exited = g.exited \cup {d}
             /\ h.creators = g.creators /\ h.joins = g.joins /\ h.owner = g.owner
<1> DEFINE h == [g EXCEPT !.exited = @ \cup {d}]
<1>1. IsGraph(g) /\ Sound(g, J)
  BY DEF GraphOK
<1>2. /\ SameTasks(g, h) /\ h.joins = g.joins /\ h.exited = g.exited \cup {d}
      /\ h.creators = g.creators /\ h.failed = g.failed /\ h.owner = g.owner
      /\ h = [f \in GraphFields |-> h[f]]
  BY <1>1 DEF IsGraph, GraphFields, SameTasks
<1> HIDE DEF h
<1>3. IsGraph(h)
  BY <1>1, <1>2 DEF IsGraph, SameTasks
<1>4. Numbered(h) /\ Actives(h, A) /\ Joinings(h, J) /\ Barriers(h)
  BY <1>2, SameTasksOK
<1>5. \A w, e : Type(h, w) = Type(g, w) /\ (Forks(h, w, e) <=> Forks(g, w, e))
  BY <1>2 DEF Type, Forks, SameTasks
<1>6. Creators(h)
  BY <1>1, <1>2, <1>5 DEF Sound, Creators, SameTasks
<1>7. Joins(h)
  BY <1>1, <1>2, <1>5 DEF Sound, Joins, SameTasks
<1> QED
  BY <1>2, <1>3, <1>4, <1>6, <1>7 DEF GraphOK, Sound, h

\* The same tasks are as settled.
LEMMA SameFine ==
  ASSUME NEW g, NEW h, NEW A, NEW J, Fine(g, A, J), SameTasks(g, h), h.owner = g.owner,
         GraphOK(h, A, J)
  PROVE  Fine(h, A, J)
<1>1. GraphOK(g, A, J) /\ Settled(g, A) /\ Owners(g)
  BY DEF Fine
<1>2. \A w : Type(h, w) = Type(g, w)
  BY DEF SameTasks, Type
<1>3. /\ \A c : activeTask(h, c) = activeTask(g, c)
      /\ \A c : Inside(h, c) <=> Inside(g, c)
  <2>1. \A c : activeTask(h, c) = activeTask(g, c)
    BY <1>1, SameTasksOK
  <2>2. \A c : Inside(h, c) <=> Inside(g, c)
    BY <1>1, SameTasksOK DEF Calm
  <2> QED
    BY <2>1, <2>2
<1>4. Settled(h, A)
  BY <1>1, <1>2, <1>3 DEF Settled
<1>5. Owners(h)
  BY <1>1, <1>2 DEF Owners, SameTasks
<1> QED
  BY <1>4, <1>5 DEF Fine

\* The exit comes before the join.
LEMMA ExitEarlyOK ==
  ASSUME NEW g, NEW c \in Context, NEW A, NEW J, Fine(g, A, J), g.joins[c] = NoTask
  PROVE  LET h == Exit(g, c, creator[c])
         IN  /\ Fine(h, A, J) /\ Calm(g, h, c, A)
             /\ h.creators = g.creators /\ h.joins = g.joins /\ h.exited = g.exited \cup {c}
             /\ Type(h, activeTask(h, c)) = Type(g, activeTask(g, c))
<1> DEFINE h == [g EXCEPT !.exited = @ \cup {c}]
<1>1. Exit(g, c, creator[c]) = h
  BY DEF Exit
<1>2. GraphOK(g, A, J)
  BY DEF Fine
<1>3. /\ GraphOK(h, A, J) /\ SameTasks(g, h) /\ h.exited = g.exited \cup {c}
      /\ h.creators = g.creators /\ h.joins = g.joins /\ h.owner = g.owner
  BY <1>2, ExitedSetOK
<1> HIDE DEF h
<1>4. Fine(h, A, J)
  BY <1>3, SameFine
<1>5. Calm(g, h, c, A) /\ activeTask(h, c) = activeTask(g, c)
  BY <1>2, <1>3, SameTasksOK
<1>6. \A w : Type(h, w) = Type(g, w)
  BY <1>3 DEF SameTasks, Type
<1> QED
  BY <1>1, <1>3, <1>4, <1>5, <1>6

\* The exit comes after the join.
LateExit(g, h, c, A, J) ==
    /\ Fine(h, A \ {c}, J \cup {c}) /\ Calm(g, h, c, A \ {c})
    /\ h.creators = g.creators /\ h.exited = g.exited \cup {c}
    /\ h.joins[c] = NoTask /\ \A d \in Context \ {c} : h.joins[d] = g.joins[d]

LEMMA ExitLateOK ==
  ASSUME NEW g, NEW c, NEW A, NEW J, NEW t, Current(g, c, A, J, t), Fine(g, A, J), c \in A,
         g.joins[c] # NoTask, creator[c] # c, Type(g, t) # "join"
  PROVE  LateExit(g, Exit(g, c, creator[c]), c, A, J)
<1> DEFINE parent == creator[c]
           B  == A \ {c}
           j  == g.joins[c]
           g1 == [g EXCEPT !.exited = @ \cup {c}]
           k  == [g1 EXCEPT !.joins[c] = NoTask]
           g2 == Edge(k, t, j)
           g3 == IF j # activeTask(g2, parent) /\ Pending(g2, j) = 0 THEN Release(g2, j) ELSE g2
           h  == Release(g3, t)
<1>1. /\ A \in SUBSET Context /\ J \in SUBSET Context /\ c \in Context /\ c \notin J
      /\ GraphOK(g, A, J) /\ IsGraph(g) /\ Numbered(g) /\ Sound(g, J) /\ activeTask(g, c) = t
      /\ IsActive(g, c, t) /\ ~Inside(g, c) /\ t \in DOMAIN g.tasks /\ t[1] = c
      /\ t \notin g.queued
  BY CurrentFacts
<1>2. Type(g, t) \in {"basic_blocks", "create"} /\ Settled(g, A) /\ Owners(g)
  BY <1>1 DEF Fine, Settled
<1>3. j[1] = parent /\ j \in g.held[parent] /\ Type(g, j) = "join"
  BY <1>1 DEF Sound, Joins
<1>4. parent \in Context /\ j \in DOMAIN g.tasks /\ j \notin g.queued /\ j # t
  <2>1. j \in TaskId
    BY <1>1 DEF IsGraph
  <2>2. parent \in Context
    BY <1>3, <2>1 DEF TaskId
  <2> QED
    BY <1>1, <1>3, <2>2 DEF IsGraph, Numbered
<1>5. /\ GraphOK(g1, A, J) /\ SameTasks(g, g1) /\ g1.exited = g.exited \cup {c}
      /\ g1.creators = g.creators /\ g1.joins = g.joins /\ g1.owner = g.owner
  BY <1>1, ExitedSetOK
<1>6. Exit(g, c, parent) = h
  <2>1. Check(g1, j \in g.held[parent]) = g1
    <3>1. IsGraph(g1)
      BY <1>5 DEF GraphOK
    <3> QED
      BY <1>3, <3>1, CheckIs
  <2>2. j # NoTask /\ j[1] = parent
    BY <1>3
  <2> QED
    BY <1>1, <2>1, <2>2 DEF Exit
<1> HIDE DEF g1, j, parent
<1>7. /\ GraphOK(k, A, J) /\ SameTasks(g1, k)
      /\ k.joins[c] = NoTask /\ \A e \in Context \ {c} : k.joins[e] = g1.joins[e]
      /\ k.creators = g1.creators /\ k.exited = g1.exited /\ k.owner = g1.owner
  BY <1>1, <1>5, JoinsSetOK
<1> HIDE DEF k
<1>8. /\ SameTasks(g, k) /\ k.exited = g.exited \cup {c} /\ k.creators = g.creators
      /\ k.owner = g.owner /\ \A e \in Context \ {c} : k.joins[e] = g.joins[e]
  BY <1>5, <1>7 DEF SameTasks
<1>9. Fine(k, A, J)
  BY <1>7, <1>8, SameFine
<1>10. /\ Calm(g, k, c, A) /\ IsActive(k, c, t) /\ ~Inside(k, c)
       /\ \A w : Type(k, w) = Type(g, w)
  <2>1. Calm(g, k, c, A) /\ IsActive(k, c, t)
    BY <1>1, <1>8, SameTasksOK
  <2>2. \A w : Type(k, w) = Type(g, w)
    BY <1>8 DEF SameTasks, Type
  <2> QED
    BY <1>1, <2>1, <2>2 DEF Calm
<1>11. /\ t \in DOMAIN k.tasks /\ j \in DOMAIN k.tasks /\ t \notin k.queued /\ j \notin k.queued
       /\ Type(k, t) \in {"basic_blocks", "create"} /\ Type(k, j) = "join" /\ IsGraph(k)
       /\ Numbered(k) /\ j \in k.held[j[1]]
  BY <1>1, <1>2, <1>3, <1>4, <1>7, <1>8, <1>10 DEF SameTasks, GraphOK
<1>12. j[2] # 0
  <2>1. j = <<j[1], j[2]>> /\ j[1] \in Context
    BY <1>11, TaskFacts
  <2>2. \A e \in Context : <<e, 0>> \in DOMAIN k.tasks => Type(k, <<e, 0>>) = "basic_blocks"
    BY <1>11 DEF Numbered
  <2> QED
    BY <1>11, <2>1, <2>2
<1>13. IsEdge(k, g2, t, j)
  BY <1>4, <1>11, EdgeIs
<1>14. /\ GraphOK(g2, A, J) /\ Quiet(k, g2, c, A)
       /\ \A d, w : IsActive(k, d, w) => IsActive(g2, d, w)
  <2>1. t # j /\ Type(k, t) # "barrier" /\ Type(k, j) # "barrier"
    BY <1>4, <1>11
  <2> QED
    BY <1>1, <1>7, <1>11, <1>12, <2>1, EdgeOK
<1> HIDE DEF g2
<1>15. /\ IsActive(g2, c, t) /\ ~Inside(g2, c) /\ IsGraph(g2) /\ Numbered(g2) /\ Barriers(g2)
       /\ Sound(g2, J)
  <2>1. IsGraph(g2) /\ Barriers(k) /\ Numbered(g2) /\ Barriers(g2) /\ Sound(g2, J)
    BY <1>7, <1>14 DEF GraphOK, Sound
  <2>2. ~Inside(g2, c)
    BY <1>10, <1>11, <1>14, <2>1, QuietBarriers
  <2> QED
    BY <1>10, <1>14, <2>1, <2>2
<1>16. /\ j \in g2.tasks[t].succ /\ j \in DOMAIN g2.tasks /\ j \in g2.held[j[1]]
       /\ \A w \in DOMAIN k.tasks : w \in DOMAIN g2.tasks /\ Type(g2, w) = Type(k, w)
       /\ g2.queued = k.queued
  BY <1>11, <1>13 DEF IsEdge
<1>17. Quiet(g2, g3, c, A) /\ GraphOK(g3, A, J) /\ IsActive(g3, c, t) /\ g3.tasks = g2.tasks
       /\ \A w \in g3.queued : w \in g2.queued \/ w = j
  <2>1. CASE j # activeTask(g2, parent) /\ Pending(g2, j) = 0
    <3>1. g3 = Release(g2, j)
      BY <2>1
    <3>2. \A d \in Context : g2.joins[d] # j
      BY <2>1, NoPending
    <3>3. j[1] \in A => ~IsActive(g2, j[1], j)
      <4>1. IsActive(g2, parent, j) => activeTask(g2, parent) = j
        BY <1>4, <1>15, ActiveIs
      <4> QED
        BY <1>3, <2>1, <4>1
    <3>4. j \notin Open(g2)
      BY <1>11, <1>15, <1>16 DEF Barriers, OpenOK
    <3>5. /\ GraphOK(Release(g2, j), A, J) /\ Quiet(g2, Release(g2, j), c, A)
          /\ \A d \in Context : \A u : u # j /\ IsActive(g2, d, u) => IsActive(Release(g2, j), d, u)
      BY <1>1, <1>14, <1>16, <3>2, <3>3, <3>4, ReleaseOK
    <3>6. /\ Release(g2, j).tasks = g2.tasks
          /\ Release(g2, j).queued = g2.queued \cup {j}
      BY <1>15, <1>16, <3>2, ReleaseIs, ZenonT(60)
    <3> QED
      BY <1>1, <1>4, <1>15, <3>1, <3>5, <3>6
  <2>2. CASE ~(j # activeTask(g2, parent) /\ Pending(g2, j) = 0)
    BY <1>14, <1>15, <2>2, QuietSame
  <2> QED
    BY <2>1, <2>2
<1> HIDE DEF g3
<1>18. IsLast(g3, c, t, j)
  <2>1. IsGraph(g3)
    BY <1>17 DEF GraphOK
  <2>2. ~Inside(g3, c)
    BY <1>15, <1>17, <2>1, QuietBarriers
  <2>3. \A w : Type(g3, w) = Type(g2, w)
    BY <1>17 DEF Type
  <2> QED
    BY <1>1, <1>3, <1>11, <1>16, <1>17, <2>2, <2>3 DEF IsLast, parent
<1>19. Ends(g3, h, c, A, J, c)
  BY <1>1, <1>17, <1>18, LastReleased
<1> HIDE DEF h
<1>20. GraphOK(h, B, J \cup {c}) /\ Quiet(g3, h, c, B) /\ SyncsStay(g3, h, NoTask)
  BY <1>19 DEF Ends
<1>21. Quiet(k, h, c, B)
  <2>1. Quiet(k, g3, c, A)
    BY <1>14, <1>17, QuietTwice
  <2>2. Quiet(k, g3, c, B)
    BY <2>1, FewerActive
  <2> QED
    BY <1>20, <2>2, QuietTwice
<1>22. SyncsStay(k, h, NoTask)
  <2>1. \A w \in DOMAIN k.tasks : w \in DOMAIN g3.tasks /\ Type(g3, w) = Type(k, w)
    BY <1>16, <1>17 DEF Type
  <2> QED
    BY <1>11, <1>16, <1>17, <1>20, <2>1 DEF SyncsStay
<1>23. Owners(h)
  BY <1>9, <1>11, <1>21, <1>22, OwnersStay DEF Fine
<1>24. Calm(k, h, c, B)
  <2>1. GraphOK(k, B, J) /\ B \in SUBSET Context
    BY <1>1, <1>7, FewerActive
  <2>2. GraphOK(h, B, J)
    BY <1>20 DEF GraphOK, Sound, Joinings
  <2> HIDE DEF B
  <2> QED
    BY <1>1, <1>21, <2>1, <2>2, QuietCalm
<1>25. Calm(g, h, c, B)
  <2>1. Calm(g, k, c, B)
    BY <1>10 DEF Calm, Sees
  <2> HIDE DEF B
  <2> QED
    BY <1>24, <2>1, CalmTwice
<1>26. Settled(h, B)
  <2>1. B \in SUBSET Context /\ Settled(g, B) /\ Sees(g, h, c, B) /\ c \notin B
    BY <1>1, <1>2, <1>25 DEF Settled, Calm
  <2> HIDE DEF B
  <2> QED
    BY <2>1, SettledStays
<1>27. /\ h.creators = g.creators /\ h.exited = g.exited \cup {c} /\ h.joins = k.joins
  BY <1>8, <1>21 DEF Quiet
<1>28. LateExit(g, h, c, A, J)
  BY <1>7, <1>8, <1>20, <1>23, <1>25, <1>26, <1>27 DEF Fine, LateExit
<1> QED
  BY <1>6, <1>28 DEF parent

\* A thread that was created starts.
LEMMA StartOK ==
  ASSUME NEW g, NEW c \in Context \ {0}, NEW A \in SUBSET Context, NEW J \in SUBSET Context,
         Fine(g, A, J), c \notin A, c \notin J, g.creators[c] # NoTask,
         <<c, 0>> \notin DOMAIN g.tasks, ~Inside(g, c)
  PROVE  LET h == Start(g, c)
         IN  /\ Fine(h, A \cup {c}, J) /\ Sees(g, h, c, A)
             /\ \A d \in Context : Awaiting(h, d) <=> Awaiting(g, d)
             /\ <<c, 0>> \in DOMAIN h.tasks /\ ~Inside(h, c)
             /\ h.creators[c] = NoTask
             /\ \A d \in Context \ {c} : h.creators[d] = g.creators[d]
             /\ h.joins = g.joins /\ h.exited = g.exited
             /\ Type(h, activeTask(h, c)) = "basic_blocks"
<1> DEFINE t == g.creators[c]
           n == <<c, 0>>
           m == Add(g, n, "basic_blocks")
           h == [m EXCEPT !.tasks[n].pred = {t}, !.creators[c] = NoTask]
           T == [type : Types, pred : SUBSET TaskId, succ : SUBSET TaskId]
           B == A \cup {c}
<1>1. /\ IsGraph(g) /\ Numbered(g) /\ Actives(g, A) /\ Sound(g, J) /\ Joins(g) /\ Creators(g)
      /\ Joinings(g, J) /\ Barriers(g) /\ Settled(g, A) /\ Owners(g) /\ GraphOK(g, A, J)
  BY DEF Fine, GraphOK, Sound
<1>2. Start(g, c) = h
  BY DEF Start
<1>3. n \in TaskId /\ n[1] = c /\ n[2] = 0 /\ n # NoTask
  BY EventQueueAssumption DEF TaskId, NoTask, None
<1>4. IsAdd(g, m, n, "basic_blocks")
  BY <1>1, <1>3, AddIs DEF Types
<1>5. Forks(g, t, c) /\ t \in DOMAIN g.tasks /\ t \in TaskId
  <2>1. Forks(g, t, c)
    BY <1>1 DEF Creators
  <2> QED
    BY <2>1, <1>1 DEF Forks, IsGraph
<1> HIDE DEF n, m, t
<1>6. /\ h.tasks = [m.tasks EXCEPT ![n].pred = {t}]
      /\ h.creators = [m.creators EXCEPT ![c] = NoTask]
      /\ h.held = m.held /\ h.queued = m.queued /\ h.joins = m.joins /\ h.exited = m.exited
      /\ h.owner = m.owner /\ h.entry = m.entry /\ h.exits = m.exits /\ h.failed = m.failed
      /\ h = [f \in GraphFields |-> h[f]]
  BY <1>4 DEF IsAdd, IsGraph, GraphFields
<1> HIDE DEF h
<1>7. /\ DOMAIN h.tasks = DOMAIN g.tasks \cup {n}
      /\ h.tasks[n] = [type |-> "basic_blocks", pred |-> {t}, succ |-> {}]
      /\ \A w \in DOMAIN g.tasks : h.tasks[w] = g.tasks[w]
      /\ h.tasks = [w \in DOMAIN h.tasks |-> h.tasks[w]]
  <2>1. n \in DOMAIN m.tasks /\ n \notin DOMAIN g.tasks
    BY <1>4 DEF IsAdd, n
  <2>2. m.tasks[n] = [type |-> "basic_blocks", pred |-> {}, succ |-> {}]
    BY <1>4 DEF IsAdd, NewTask
  <2>3. /\ DOMAIN m.tasks = DOMAIN g.tasks \cup {n}
        /\ \A w \in DOMAIN g.tasks : m.tasks[w] = g.tasks[w]
    BY <1>4 DEF IsAdd
  <2>4. /\ DOMAIN h.tasks = DOMAIN m.tasks
        /\ h.tasks = [w \in DOMAIN m.tasks |-> IF w = n THEN [m.tasks[n] EXCEPT !.pred = {t}]
                                               ELSE m.tasks[w]]
    BY <1>6
  <2>5. h.tasks[n] = [type |-> "basic_blocks", pred |-> {t}, succ |-> {}]
    <3>1. h.tasks[n] = [m.tasks[n] EXCEPT !.pred = {t}]
      BY <2>1, <2>4
    <3> QED
      BY <2>2, <3>1, SMTT(60)
  <2> QED
    BY <2>1, <2>3, <2>4, <2>5
<1>8. /\ h.held = [g.held EXCEPT ![c] = @ \cup {n}] /\ h.queued = g.queued
      /\ h.creators = [g.creators EXCEPT ![c] = NoTask]
      /\ h.joins = g.joins /\ h.exited = g.exited /\ h.owner = g.owner /\ h.entry = g.entry
      /\ h.exits = g.exits /\ h.failed = FALSE
  BY <1>1, <1>3, <1>4, <1>6 DEF IsAdd, SameMaps, IsGraph
<1>9. /\ \A d \in Context : g.held[d] \subseteq h.held[d] /\ (d # c => h.held[d] = g.held[d])
      /\ h.held[c] = g.held[c] \cup {n}
      /\ \A d \in Context : h.creators[d] = IF d = c THEN NoTask ELSE g.creators[d]
  BY <1>1, <1>8 DEF IsGraph
<1>10. IsGraph(h)
  <2>1. h.tasks \in [DOMAIN h.tasks -> T]
    <3>1. \A w \in DOMAIN g.tasks : g.tasks[w] \in T
      BY <1>1 DEF IsGraph
    <3>2. h.tasks[n] \in T
      BY <1>5, <1>7 DEF Types
    <3> HIDE DEF T
    <3> QED
      BY <1>7, <3>1, <3>2
  <2>2. h.held \in [Context -> SUBSET DOMAIN h.tasks]
    <3>1. g.held \in [Context -> SUBSET DOMAIN g.tasks]
      BY <1>1 DEF IsGraph
    <3>2. h.held \in [Context -> SUBSET (DOMAIN g.tasks \cup {n})]
      BY <3>1, <1>8
    <3> QED
      BY <3>2, <1>7
  <2>3. h.creators \in [Context -> TaskId \cup {NoTask}]
    BY <1>1, <1>8 DEF IsGraph
  <2> HIDE DEF T
  <2> QED
    BY <1>1, <1>3, <1>6, <1>7, <1>8, <2>1, <2>2, <2>3, ZenonT(60) DEF IsGraph, T
<1>11. /\ \A u \in DOMAIN g.tasks : u[1] # c
       /\ \A w \in DOMAIN g.tasks : Type(h, w) = Type(g, w)
       /\ Type(h, n) = "basic_blocks"
  <2>1. ASSUME NEW u \in DOMAIN g.tasks, u[1] = c PROVE FALSE
    <3>1. u[2] \in Nat
      BY <1>1, TaskFacts
    <3>2. 0 \in 0 .. u[2]
      BY <3>1
    <3> QED
      BY <1>1, <2>1, <3>2 DEF Numbered
  <2> QED
    BY <2>1, <1>7 DEF Type
<1>12. Numbered(h)
  <2>1. <<0, 0>> \in DOMAIN h.tasks
    BY <1>1, <1>7 DEF Numbered
  <2>2. n \notin h.queued
    BY <1>1, <1>8 DEF IsGraph, n
  <2>3. \A d \in Context : \A u \in h.held[d] : u[1] = d /\ u \notin h.queued
    BY <1>1, <1>3, <1>8, <1>9, <2>2 DEF Numbered
  <2>4. ASSUME NEW w \in DOMAIN h.tasks, NEW i \in 0 .. w[2]
        PROVE  <<w[1], i>> \in DOMAIN h.tasks
    <3>1. CASE w = n
      BY <1>3, <1>7, <3>1 DEF n
    <3>2. CASE w \in DOMAIN g.tasks
      BY <1>1, <1>7, <3>2 DEF Numbered
    <3> QED
      BY <1>7, <3>1, <3>2
  <2>5. \A d \in Context : <<d, 0>> \in DOMAIN h.tasks => Type(h, <<d, 0>>) = "basic_blocks"
    BY <1>1, <1>7, <1>11 DEF Numbered
  <2> QED
    BY <2>1, <2>3, <2>4, <2>5 DEF Numbered
<1>13. Open(h) = Open(g)
  BY <1>8 DEF Open
<1>14. ASSUME NEW b \in Open(g)
       PROVE  h.tasks[b] = g.tasks[b] /\ OpenOK(h, b) /\ b \in DOMAIN g.tasks
  <2>1. OpenOK(g, b)
    BY <1>1 DEF Barriers
  <2>2. b \in DOMAIN g.tasks /\ b[1] \in Context /\ b # n
    <3>1. b \in DOMAIN g.tasks
      BY <2>1 DEF OpenOK
    <3> QED
      BY <3>1, <1>1, TaskFacts DEF n
  <2>3. (b \in h.held[b[1]]) <=> (b \in g.held[b[1]])
    BY <1>9, <2>2
  <2>4. h.tasks[b] = g.tasks[b] /\ b \in DOMAIN h.tasks /\ Type(h, b) = Type(g, b)
    BY <1>7, <1>11, <2>2
  <2> QED
    BY <1>8, <2>1, <2>2, <2>3, <2>4 DEF OpenOK
<1>15. \A d : \A b \in Open(g) : Within(h, b, d) <=> Within(g, b, d)
  BY <1>14 DEF Within
<1>16. Barriers(h)
  <2>1. h.entry # NoTask =>
          h.tasks[h.entry].succ = {} /\ \A i \in DOMAIN h.exits : h.exits[i] # h.entry
    <3>1. g.entry # NoTask => g.entry \in Open(g)
      BY DEF Open
    <3> QED
      BY <1>1, <1>8, <1>14, <3>1 DEF Barriers
  <2>2. \A i \in DOMAIN h.exits : Contexts(h.tasks[h.exits[i]].pred) = plan.party
    <3>1. \A i \in DOMAIN g.exits : g.exits[i] \in Open(g)
      BY DEF Open
    <3> QED
      BY <1>1, <1>8, <1>14, <3>1 DEF Barriers
  <2>3. \A i, j \in DOMAIN h.exits : h.exits[i] = h.exits[j] => i = j
    BY <1>1, <1>8 DEF Barriers
  <2>4. \A d \in Context : \A a, b \in Open(h) : Within(h, a, d) /\ Within(h, b, d) => a = b
    BY <1>1, <1>13, <1>15 DEF Barriers
  <2>5. ASSUME NEW b \in DOMAIN h.tasks \ Open(h), Type(h, b) = "barrier"
        PROVE  Whole(h, b)
    <3>1. b \in DOMAIN g.tasks \ Open(g) /\ Type(g, b) = "barrier"
      BY <1>7, <1>11, <1>13, <2>5
    <3>2. Whole(g, b) /\ h.tasks[b] = g.tasks[b]
      BY <1>1, <1>7, <3>1 DEF Barriers
    <3> QED
      BY <3>2 DEF Whole
  <2> QED
    BY <1>13, <1>14, <2>1, <2>2, <2>3, <2>4, <2>5 DEF Barriers
<1>17. ASSUME NEW d, NEW u, IsActive(g, d, u), d \in A PROVE IsActive(h, d, u)
  <2>1. d # c /\ d \in Context
    BY <1>17
  <2>2. \A w \in DOMAIN h.tasks : w[1] = d => w \in DOMAIN g.tasks
    BY <1>3, <1>7, <2>1
  <2> QED
    BY <1>9, <1>13, <1>15, <1>17, <2>1, <2>2 DEF IsActive
<1>18. IsActive(h, c, n)
  <2>1. \A w \in DOMAIN h.tasks : w[1] = c => w[2] <= n[2]
    BY <1>3, <1>7, <1>11
  <2>2. \A b \in Open(h) : b[1] # c
    BY <1>11, <1>13, <1>14
  <2> QED
    BY <1>9, <2>1, <2>2 DEF IsActive
<1>19. Actives(h, B)
  <2>1. \A d \in A : \E u \in g.held[d] : IsActive(g, d, u)
    BY <1>1 DEF Actives
  <2>2. \A d \in A : \E u \in h.held[d] : IsActive(h, d, u)
    BY <1>9, <1>17, <2>1
  <2> QED
    BY <1>9, <1>18, <2>2 DEF Actives
<1>20. \A w, d : Forks(g, w, d) => Forks(h, w, d)
  BY <1>7, <1>11 DEF Forks
<1>21. Creators(h)
  <2>1. \A d \in Context : h.creators[d] # NoTask => Forks(h, h.creators[d], d)
    BY <1>1, <1>9, <1>20 DEF Creators
  <2>2. ASSUME NEW d \in Context \ {0}, <<d, 0>> \in DOMAIN h.tasks
        PROVE  \E w \in DOMAIN h.tasks : Forks(h, w, d) /\ h.tasks[<<d, 0>>].pred = {w}
    <3>1. CASE d = c
      <4>1. Forks(h, t, d) /\ h.tasks[<<d, 0>>].pred = {t} /\ t \in DOMAIN h.tasks
        BY <1>5, <1>7, <1>20, <3>1 DEF n
      <4> QED
        BY <4>1
    <3>2. CASE d # c
      <4>1. <<d, 0>> \in DOMAIN g.tasks
        BY <1>7, <2>2, <3>2 DEF n
      <4>2. PICK w \in DOMAIN g.tasks : Forks(g, w, d) /\ g.tasks[<<d, 0>>].pred = {w}
        BY <1>1, <4>1 DEF Creators
      <4>3. Forks(h, w, d) /\ h.tasks[<<d, 0>>].pred = {w} /\ w \in DOMAIN h.tasks
        BY <1>7, <1>20, <4>1, <4>2
      <4> QED
        BY <4>3
    <3> QED
      BY <3>1, <3>2
  <2> QED
    BY <2>1, <2>2 DEF Creators
<1>22. Joins(h)
  <2>1. ASSUME NEW d \in Context, h.joins[d] # NoTask
        PROVE  /\ h.joins[d][1] = creator[d] /\ h.joins[d] \in h.held[creator[d]]
               /\ Type(h, h.joins[d]) = "join"
    <3>0. g.joins[d] # NoTask
      BY <1>8, <2>1
    <3>4. g.joins[d] \in TaskId
      BY <1>1, <3>0 DEF IsGraph
    <3>1. /\ g.joins[d][1] = creator[d] /\ g.joins[d] \in g.held[creator[d]]
          /\ Type(g, g.joins[d]) = "join" /\ g.joins[d] \in TaskId
      BY <1>1, <3>0, <3>4 DEF Joins
    <3>2. creator[d] \in Context
      BY <3>1 DEF TaskId
    <3>3. g.joins[d] \in DOMAIN g.tasks
      BY <1>1, <3>1, <3>2 DEF IsGraph
    <3> QED
      BY <1>8, <1>9, <1>11, <3>1, <3>2, <3>3
  <2> QED
    BY <2>1 DEF Joins
<1>23. Joinings(h, J)
  <2>1. ASSUME NEW d \in J
        PROVE  \E w \in DOMAIN h.tasks :
                  /\ w[1] = d /\ getNext(w) \notin DOMAIN h.tasks
                  /\ \E j \in h.tasks[w].succ :
                        j[1] = creator[d] /\ j \in DOMAIN h.tasks /\ Type(h, j) = "join"
    <3>1. PICK w \in DOMAIN g.tasks :
                  /\ w[1] = d /\ getNext(w) \notin DOMAIN g.tasks
                  /\ \E j \in g.tasks[w].succ :
                        j[1] = creator[d] /\ j \in DOMAIN g.tasks /\ Type(g, j) = "join"
      BY <1>1 DEF Joinings
    <3>2. PICK j \in g.tasks[w].succ :
                        j[1] = creator[d] /\ j \in DOMAIN g.tasks /\ Type(g, j) = "join"
      BY <3>1
    <3>3. getNext(w) \notin DOMAIN h.tasks
      <4>1. getNext(w)[1] = d /\ d # c
        BY <3>1 DEF getNext
      <4> QED
        BY <1>3, <1>7, <3>1, <4>1
    <3>4. j \in h.tasks[w].succ /\ j \in DOMAIN h.tasks /\ Type(h, j) = "join" /\ w \in DOMAIN h.tasks
      BY <1>7, <1>11, <3>1, <3>2
    <3> QED
      BY <3>1, <3>2, <3>3, <3>4
  <2> QED
    BY <2>1 DEF Joinings
<1>24. GraphOK(h, B, J)
  BY <1>10, <1>12, <1>16, <1>19, <1>21, <1>22, <1>23 DEF GraphOK, Sound
<1>25. \A d : Inside(h, d) <=> Inside(g, d)
  BY <1>13, <1>15 DEF Inside
<1>26. activeTask(h, c) = n
  BY <1>10, <1>12, <1>16, <1>18, ActiveIs
<1>27. ASSUME NEW d \in A
       PROVE  /\ activeTask(h, d) = activeTask(g, d)
              /\ Type(h, activeTask(h, d)) = Type(g, activeTask(g, d))
  <2>1. PICK u \in g.held[d] : IsActive(g, d, u)
    BY <1>1 DEF Actives
  <2>2. activeTask(g, d) = u /\ u \in DOMAIN g.tasks
    BY <1>1, <2>1, ActiveIs
  <2>3. activeTask(h, d) = u
    BY <1>10, <1>12, <1>16, <1>17, <2>1, ActiveIs
  <2> QED
    BY <1>11, <2>2, <2>3
<1>28. Settled(h, B)
  BY <1>1, <1>11, <1>25, <1>26, <1>27 DEF Settled
<1>29. Owners(h)
  <2>1. ASSUME NEW a \in Addr, h.owner[a] # NoTask
        PROVE  h.owner[a] \in h.held[h.owner[a][1]] /\ Type(h, h.owner[a]) = "sync"
    <3>4. g.owner[a] \in TaskId
      <4>1. g.owner \in [Addr -> TaskId \cup {NoTask}]
        BY <1>1 DEF IsGraph
      <4> QED
        BY <4>1, <1>8, <2>1
    <3>1. g.owner[a] \in g.held[g.owner[a][1]] /\ Type(g, g.owner[a]) = "sync" /\ g.owner[a] \in TaskId
      BY <1>1, <1>8, <2>1, <3>4 DEF Owners
    <3>2. g.owner[a][1] \in Context
      BY <3>1 DEF TaskId
    <3>3. g.owner[a] \in DOMAIN g.tasks
      BY <1>1, <3>1, <3>2 DEF IsGraph
    <3> QED
      BY <1>8, <1>9, <1>11, <3>1, <3>2, <3>3
  <2> QED
    BY <1>1, <1>8, <2>1 DEF Owners
<1>30. Frozen(g, h)
  BY <1>1, <1>7, <1>8 DEF Frozen, IsGraph
<1>31. \A d \in Context \ {c} : <<d, 0>> \in DOMAIN h.tasks <=> <<d, 0>> \in DOMAIN g.tasks
  BY <1>7 DEF n
<1>32. Sees(g, h, c, A)
  BY <1>25, <1>27, <1>30, <1>31 DEF Sees
<1>33. \A d \in Context : Awaiting(h, d) <=> Awaiting(g, d)
  <2>1. g.entry # NoTask => g.entry \in Open(g)
    BY DEF Open
  <2> QED
    BY <1>8, <1>14, <2>1 DEF Awaiting
<1> QED
  BY <1>2, <1>7, <1>8, <1>9, <1>11, <1>24, <1>25, <1>26, <1>28, <1>29, <1>32, <1>33 DEF Fine, n

-----------------------------------------------------------------------------
(***************************************************************************)
(* Barriers.                                                               *)
(***************************************************************************)

\* Context c, whose active task is block t, has entered the barrier b, which was there or
\* is new.
IsEntered(g, h, c, t, b) ==
    /\ IsGraph(h) /\ b # NoTask /\ b # t /\ b[2] # 0
    /\ \/ g.entry = b /\ b \in DOMAIN g.tasks /\ h.tasks[b].pred = g.tasks[b].pred \cup {t}
       \/ /\ g.entry = NoTask /\ b = getNext(t) /\ b \notin DOMAIN g.tasks
          /\ h.tasks[b].pred = {t}
    /\ DOMAIN h.tasks = DOMAIN g.tasks \cup {b}
    /\ Type(h, b) = "barrier" /\ h.tasks[b].succ = {}
    /\ \A w \in DOMAIN g.tasks :
          /\ Type(h, w) = Type(g, w)
          /\ w # b => h.tasks[w].pred = g.tasks[w].pred
          /\ g.tasks[w].succ \subseteq h.tasks[w].succ
          /\ w \notin {t, b} => h.tasks[w] = g.tasks[w]
    /\ h.entry = b /\ h.exits = g.exits /\ h.held = g.held /\ h.queued = g.queued
    /\ h.creators = g.creators /\ h.joins = g.joins /\ h.exited = g.exited
    /\ h.owner = g.owner

Entered(g, h, c, A, J) ==
    /\ Fine(h, A, J) /\ Sees(g, h, c, A) /\ Inside(h, c) /\ Awaiting(h, c)
    /\ \A d \in Context \ {c} : Awaiting(h, d) <=> Awaiting(g, d)
    /\ <<c, 0>> \in DOMAIN h.tasks <=> <<c, 0>> \in DOMAIN g.tasks
    /\ h.creators = g.creators /\ h.joins = g.joins /\ h.exited = g.exited
    /\ Type(h, activeTask(h, c)) = "basic_blocks"

LEMMA OneMore ==
  ASSUME NEW ts, OnePer(ts), NEW t, t[1] \notin Contexts(ts)
  PROVE  OnePer(ts \cup {t}) /\ Contexts(ts \cup {t}) = Contexts(ts) \cup {t[1]}
<1>1. IsFiniteSet(ts \cup {t})
  BY FS_AddElement DEF OnePer
<1>2. Contexts(ts \cup {t}) = Contexts(ts) \cup {t[1]}
  BY DEF Contexts
<1>3. \A u \in ts : u[1] # t[1]
  BY DEF Contexts
<1> QED
  BY <1>1, <1>2, <1>3 DEF OnePer

LEMMA EnteredOK ==
  ASSUME NEW g, NEW h, NEW c, NEW A, NEW J, NEW t, NEW b, Current(g, c, A, J, t),
         Fine(g, A, J), Type(g, t) = "basic_blocks", c \in plan.party, IsEntered(g, h, c, t, b)
  PROVE  Entered(g, h, c, A, J)
<1>1. /\ A \in SUBSET Context /\ J \in SUBSET Context /\ c \in Context /\ c \notin J
      /\ GraphOK(g, A, J) /\ IsGraph(g) /\ Numbered(g) /\ Actives(g, A) /\ Sound(g, J)
      /\ Barriers(g) /\ IsActive(g, c, t) /\ ~Inside(g, c) /\ activeTask(g, c) = t
      /\ t \in DOMAIN g.tasks /\ t[1] = c /\ t \in g.held[c] /\ t \notin g.queued
  BY CurrentFacts DEF GraphOK
<1>2. /\ IsGraph(h) /\ b # NoTask /\ b # t /\ b[2] # 0
      /\ DOMAIN h.tasks = DOMAIN g.tasks \cup {b}
      /\ Type(h, b) = "barrier" /\ h.tasks[b].succ = {}
      /\ \A w \in DOMAIN g.tasks :
            /\ Type(h, w) = Type(g, w)
            /\ w # b => h.tasks[w].pred = g.tasks[w].pred
            /\ g.tasks[w].succ \subseteq h.tasks[w].succ
            /\ w \notin {t, b} => h.tasks[w] = g.tasks[w]
      /\ h.entry = b /\ h.exits = g.exits /\ h.held = g.held /\ h.queued = g.queued
      /\ h.creators = g.creators /\ h.joins = g.joins /\ h.exited = g.exited
      /\ h.owner = g.owner
  BY DEF IsEntered
<1> DEFINE P == IF g.entry = b THEN Contexts(g.tasks[b].pred) ELSE {}
           new == h.tasks[b].pred
<1>3. /\ OnePer(new) /\ Contexts(new) = P \cup {c} /\ c \notin P /\ P \subseteq plan.party
      /\ b \notin h.queued /\ b[1] \in Context /\ b[1] \in Contexts(new)
      /\ b \notin h.held[b[1]] /\ (b[1] = c => b = getNext(t))
      /\ \A i \in DOMAIN g.exits : g.exits[i] # b
      /\ \A d \in Context : d \in P <=> b \in Open(g) /\ Within(g, b, d)
      /\ b \in Open(g) \/ b \notin DOMAIN g.tasks
      /\ g.entry = b \/ g.entry = NoTask
  <2>1. CASE g.entry = b
    <3>1. /\ b \in DOMAIN g.tasks /\ new = g.tasks[b].pred \cup {t} /\ b \in Open(g)
      BY <1>2, <2>1 DEF IsEntered, Open
    <3>2. /\ OpenOK(g, b) /\ g.tasks[b].succ = {}
          /\ \A i \in DOMAIN g.exits : g.exits[i] # b
      BY <1>1, <1>2, <2>1, <3>1 DEF Barriers
    <3>3. \A d : Within(g, b, d) <=> d \in Contexts(g.tasks[b].pred)
      BY <3>2 DEF Within, Contexts
    <3>4. c \notin Contexts(g.tasks[b].pred)
      BY <1>1, <3>1, <3>3 DEF Inside
    <3>5. OnePer(new) /\ Contexts(new) = P \cup {c}
      BY <1>1, <2>1, <3>1, <3>2, <3>4, OneMore, SMTT(60) DEF OpenOK
    <3>6. /\ b[1] \in Contexts(g.tasks[b].pred) /\ P \subseteq plan.party
          /\ b \notin g.queued /\ b \notin g.held[b[1]]
      BY <2>1, <3>2 DEF OpenOK, Contexts
    <3>7. b[1] \in Context
      BY <1>1, <3>1, TaskFacts
    <3> QED
      BY <1>2, <2>1, <3>1, <3>2, <3>3, <3>4, <3>5, <3>6, <3>7
  <2>2. CASE g.entry # b
    <3>1. g.entry = NoTask /\ b = getNext(t) /\ b \notin DOMAIN g.tasks /\ new = {t}
      BY <2>2 DEF IsEntered
    <3>2. b[1] = c
      BY <1>1, <3>1 DEF getNext
    <3>3. b \notin Open(g)
      BY <1>1, <3>1 DEF Barriers, OpenOK
    <3>4. OnePer({t}) /\ Contexts({t}) = {c}
      <4>1. IsFiniteSet({t})
        BY FS_Singleton
      <4> QED
        BY <1>1, <4>1 DEF OnePer, Contexts
    <3>5. b \notin g.held[c] /\ b \notin g.queued
      BY <1>1, <3>1 DEF IsGraph
    <3>6. \A i \in DOMAIN g.exits : g.exits[i] # b
      BY <3>3 DEF Open
    <3> QED
      BY <1>1, <1>2, <2>2, <3>1, <3>2, <3>3, <3>4, <3>5, <3>6, ZenonT(60)
  <2> QED
    BY <2>1, <2>2
<1> HIDE DEF P, new
<1>4. Open(h) = Open(g) \cup {b}
  BY <1>2, <1>3 DEF Open
<1>5. ASSUME NEW a \in Open(g), a # b
      PROVE  h.tasks[a] = g.tasks[a] /\ OpenOK(g, a) /\ OpenOK(h, a)
  <2>1. OpenOK(g, a)
    BY <1>1 DEF Barriers
  <2>2. a \in DOMAIN g.tasks /\ a # t
    BY <2>1 DEF OpenOK
  <2>3. h.tasks[a] = g.tasks[a] /\ Type(h, a) = Type(g, a) /\ a \in DOMAIN h.tasks
    BY <1>2, <1>5, <2>2
  <2> QED
    BY <1>2, <2>1, <2>3 DEF OpenOK
<1>6. \A d : \A a \in Open(g) : a # b => (Within(h, a, d) <=> Within(g, a, d))
  BY <1>5 DEF Within
<1>7. \A d : Within(h, b, d) <=> d = c \/ d \in P
  BY <1>2, <1>3 DEF Within, Contexts, new
<1>8. OpenOK(h, b)
  <2>1. OnePer({}) /\ Contexts({}) = {}
    BY FS_EmptySet DEF OnePer, Contexts
  <2>2. Contexts(new) \subseteq plan.party /\ Contexts(new) # {}
    BY <1>3
  <2> QED
    BY <1>2, <1>3, <2>1, <2>2 DEF OpenOK, new
<1>9. Barriers(h)
  <2>1. \A i \in DOMAIN h.exits : Contexts(h.tasks[h.exits[i]].pred) = plan.party
    <3>1. \A i \in DOMAIN g.exits : g.exits[i] \in Open(g)
      BY DEF Open
    <3> QED
      BY <1>1, <1>2, <1>3, <1>5, <3>1 DEF Barriers
  <2>2. ASSUME NEW d \in Context, NEW a \in Open(h), NEW e \in Open(h),
               Within(h, a, d), Within(h, e, d)
        PROVE  a = e
    <3>1. ASSUME NEW w \in Open(h), Within(h, w, d), w # b
          PROVE  w \in Open(g) /\ Within(g, w, d) /\ d # c
      BY <1>1, <1>4, <1>6, <3>1 DEF Inside
    <3>2. ASSUME NEW w \in Open(h), Within(h, w, d), w # b, Within(h, b, d)
          PROVE  FALSE
      BY <1>1, <1>3, <1>7, <3>1, <3>2 DEF Barriers
    <3> QED
      BY <1>1, <2>2, <3>1, <3>2 DEF Barriers
  <2>3. ASSUME NEW a \in DOMAIN h.tasks \ Open(h), Type(h, a) = "barrier"
        PROVE  Whole(h, a)
    <3>1. a \in DOMAIN g.tasks \ Open(g) /\ Type(g, a) = "barrier" /\ a # b
      BY <1>2, <1>4, <2>3
    <3>2. a # t
      BY <3>1
    <3>3. Whole(g, a) /\ h.tasks[a] = g.tasks[a]
      BY <1>1, <1>2, <3>1, <3>2 DEF Barriers
    <3> QED
      BY <3>3 DEF Whole
  <2>4. \A i, k \in DOMAIN h.exits : h.exits[i] = h.exits[k] => i = k
    BY <1>1, <1>2 DEF Barriers
  <2> QED
    BY <1>2, <1>3, <1>4, <1>5, <1>8, <2>1, <2>2, <2>3, <2>4 DEF Barriers
<1>10. /\ \A w \in DOMAIN g.tasks : w \in DOMAIN h.tasks /\ Type(h, w) = Type(g, w)
       /\ \A d : <<d, 0>> \in DOMAIN h.tasks <=> <<d, 0>> \in DOMAIN g.tasks
  BY <1>2
<1>11. Numbered(h)
  <2>1. <<0, 0>> \in DOMAIN h.tasks
    BY <1>1, <1>2 DEF Numbered
  <2>2. \A d \in Context : \A u \in h.held[d] : u[1] = d /\ u \notin h.queued
    BY <1>1, <1>2 DEF Numbered
  <2>3. ASSUME NEW w \in DOMAIN h.tasks, NEW i \in 0 .. w[2]
        PROVE  <<w[1], i>> \in DOMAIN h.tasks
    <3>1. CASE w \in DOMAIN g.tasks
      BY <1>1, <1>2, <3>1 DEF Numbered
    <3>2. CASE w \notin DOMAIN g.tasks
      <4>1. w = b /\ b = getNext(t)
        BY <1>2, <3>2 DEF IsEntered
      <4>2. w = <<c, t[2] + 1>> /\ t[2] \in Nat /\ w[1] = c /\ w[2] = t[2] + 1
        BY <1>1, <4>1, TaskFacts
      <4>3. CASE i = t[2] + 1
        BY <4>2, <4>3
      <4>4. CASE i # t[2] + 1
        <5>1. i \in 0 .. t[2]
          BY <4>2, <4>4
        <5>2. <<t[1], i>> \in DOMAIN g.tasks
          BY <5>1, <1>1 DEF Numbered
        <5> QED
          BY <1>1, <1>2, <4>2, <5>2
      <4> QED
        BY <4>3, <4>4
    <3> QED
      BY <3>1, <3>2
  <2>4. ASSUME NEW d \in Context, <<d, 0>> \in DOMAIN h.tasks
        PROVE  Type(h, <<d, 0>>) = "basic_blocks"
    <3>1. <<d, 0>> \in DOMAIN g.tasks
      BY <1>10, <2>4
    <3>2. Type(g, <<d, 0>>) = "basic_blocks"
      BY <1>1, <3>1 DEF Numbered
    <3> QED
      BY <1>2, <3>1, <3>2
  <2> QED
    BY <2>1, <2>2, <2>3, <2>4 DEF Numbered
<1>12. IsActive(h, c, t)
  <2>1. ASSUME NEW u \in DOMAIN h.tasks, u[1] = c
        PROVE  u[2] <= t[2] \/ (u = getNext(t) /\ u \in Open(h) /\ Within(h, u, c))
    <3>1. CASE u = b
      BY <1>3, <1>4, <1>7, <2>1, <3>1
    <3>2. CASE u # b
      BY <1>1, <1>2, <2>1, <3>2 DEF IsActive, Inside
    <3> QED
      BY <3>1, <3>2
  <2>2. ASSUME NEW a \in Open(h), a[1] = c, Within(h, a, c) PROVE a = getNext(t)
    <3>1. a = b
      BY <1>1, <1>4, <1>6, <2>2 DEF Inside
    <3> QED
      BY <1>3, <2>2, <3>1
  <2> QED
    BY <1>1, <1>2, <2>1, <2>2 DEF IsActive
<1>13. ASSUME NEW d \in Context \ {c} PROVE \A a \in Open(h) : Within(h, a, d) <=> a \in Open(g) /\ Within(g, a, d)
  BY <1>3, <1>4, <1>6, <1>7
<1>14. ASSUME NEW d \in Context \ {c}, NEW u, IsActive(g, d, u) PROVE IsActive(h, d, u)
  <2>1. ASSUME NEW w \in DOMAIN h.tasks, w[1] = d
        PROVE  w[2] <= u[2] \/ (w = getNext(u) /\ w \in Open(h) /\ Within(h, w, d))
    <3>1. w \in DOMAIN g.tasks
      <4>1. b \notin DOMAIN g.tasks => b[1] = c
        BY <1>1 DEF IsEntered, getNext
      <4> QED
        BY <1>2, <2>1, <4>1
    <3>2. w[2] <= u[2] \/ (w = getNext(u) /\ w \in Open(g) /\ Within(g, w, d))
      BY <1>14, <2>1, <3>1 DEF IsActive
    <3> QED
      BY <1>4, <1>13, <3>2
  <2>2. ASSUME NEW a \in Open(h), a[1] = d, Within(h, a, d) PROVE a = getNext(u)
    BY <1>13, <1>14, <2>2 DEF IsActive
  <2>3. u \in h.held[d]
    BY <1>2, <1>14 DEF IsActive
  <2> QED
    BY <2>1, <2>2, <2>3 DEF IsActive
<1>15. Actives(h, A)
  <2>1. \A d \in A : \E u \in h.held[d] : IsActive(g, d, u)
    BY <1>1, <1>2 DEF Actives
  <2>2. ASSUME NEW d \in A PROVE \E u \in h.held[d] : IsActive(h, d, u)
    <3>1. CASE d = c
      BY <1>1, <1>2, <1>12, <3>1
    <3>2. CASE d # c
      BY <1>1, <1>14, <2>1, <3>2
    <3> QED
      BY <3>1, <3>2
  <2> QED
    BY <2>2 DEF Actives
<1>16. \A w, d : Forks(g, w, d) => Forks(h, w, d)
  BY <1>2 DEF Forks
<1>17. Creators(h)
  <2>1. \A d \in Context : h.creators[d] # NoTask => Forks(h, h.creators[d], d)
    BY <1>1, <1>2, <1>16 DEF Sound, Creators
  <2>2. ASSUME NEW d \in Context \ {0}, <<d, 0>> \in DOMAIN h.tasks
        PROVE  \E w \in DOMAIN h.tasks : Forks(h, w, d) /\ h.tasks[<<d, 0>>].pred = {w}
    <3>1. <<d, 0>> \in DOMAIN g.tasks /\ <<d, 0>> # b
      BY <1>2, <2>2
    <3>2. PICK w \in DOMAIN g.tasks : Forks(g, w, d) /\ g.tasks[<<d, 0>>].pred = {w}
      BY <1>1, <3>1 DEF Sound, Creators
    <3>3. Forks(h, w, d) /\ h.tasks[<<d, 0>>].pred = {w} /\ w \in DOMAIN h.tasks
      BY <1>2, <1>16, <3>1, <3>2
    <3> QED
      BY <3>3
  <2> QED
    BY <2>1, <2>2 DEF Creators
<1>18. Joins(h)
  <2>1. ASSUME NEW d \in Context, h.joins[d] # NoTask
        PROVE  /\ h.joins[d][1] = creator[d] /\ h.joins[d] \in h.held[creator[d]]
               /\ Type(h, h.joins[d]) = "join"
    <3>1. g.joins[d] # NoTask /\ g.joins[d] \in TaskId
      <4>1. g.joins \in [Context -> TaskId \cup {NoTask}]
        BY <1>1 DEF IsGraph
      <4> QED
        BY <1>2, <2>1, <4>1
    <3>2. /\ g.joins[d][1] = creator[d] /\ g.joins[d] \in g.held[creator[d]]
          /\ Type(g, g.joins[d]) = "join"
      BY <1>1, <3>1 DEF Sound, Joins
    <3>3. creator[d] \in Context
      BY <3>1, <3>2 DEF TaskId
    <3>4. g.joins[d] \in DOMAIN g.tasks
      BY <1>1, <3>2, <3>3 DEF IsGraph
    <3> QED
      BY <1>2, <3>2, <3>4
  <2> QED
    BY <2>1 DEF Joins
<1>19. Joinings(h, J)
  <2>1. ASSUME NEW d \in J
        PROVE  \E w \in DOMAIN h.tasks :
                  /\ w[1] = d /\ getNext(w) \notin DOMAIN h.tasks
                  /\ \E j \in h.tasks[w].succ :
                        j[1] = creator[d] /\ j \in DOMAIN h.tasks /\ Type(h, j) = "join"
    <3>1. PICK w \in DOMAIN g.tasks :
                  /\ w[1] = d /\ getNext(w) \notin DOMAIN g.tasks
                  /\ \E j \in g.tasks[w].succ :
                        j[1] = creator[d] /\ j \in DOMAIN g.tasks /\ Type(g, j) = "join"
      BY <1>1 DEF Sound, Joinings
    <3>2. PICK j \in g.tasks[w].succ :
                        j[1] = creator[d] /\ j \in DOMAIN g.tasks /\ Type(g, j) = "join"
      BY <3>1
    <3>3. getNext(w) \notin DOMAIN h.tasks
      <4>1. getNext(w)[1] = d /\ d # c
        BY <1>1, <3>1 DEF getNext
      <4>2. b \notin DOMAIN g.tasks => b[1] = c
        BY <1>1 DEF IsEntered, getNext
      <4>3. b \in DOMAIN g.tasks \/ getNext(w) # b
        BY <4>1, <4>2
      <4> QED
        BY <1>2, <3>1, <4>3
    <3>4. j \in h.tasks[w].succ /\ j \in DOMAIN h.tasks /\ Type(h, j) = "join" /\ w \in DOMAIN h.tasks
      BY <1>2, <3>1, <3>2
    <3> QED
      BY <3>1, <3>2, <3>3, <3>4
  <2> QED
    BY <2>1 DEF Joinings
<1>20. GraphOK(h, A, J)
  BY <1>2, <1>9, <1>11, <1>15, <1>17, <1>18, <1>19 DEF GraphOK, Sound
<1>21. /\ \A d \in Context \ {c} : Inside(h, d) <=> Inside(g, d)
       /\ Inside(h, c)
  BY <1>4, <1>7, <1>13 DEF Inside
<1>22. activeTask(h, c) = t
  BY <1>1, <1>2, <1>9, <1>11, <1>12, ActiveIs
<1>23. ASSUME NEW d \in A \ {c}
       PROVE  /\ activeTask(h, d) = activeTask(g, d)
              /\ Type(h, activeTask(h, d)) = Type(g, activeTask(g, d))
  <2>1. PICK u \in g.held[d] : IsActive(g, d, u)
    BY <1>1 DEF Actives
  <2>2. activeTask(g, d) = u /\ u \in DOMAIN g.tasks
    BY <1>1, <2>1, ActiveIs
  <2>3. activeTask(h, d) = u
    BY <1>1, <1>2, <1>9, <1>11, <1>14, <2>1, ActiveIs
  <2> QED
    BY <1>2, <2>2, <2>3
<1>24. Type(h, t) = "basic_blocks"
  BY <1>1, <1>2
<1>25. Settled(h, A)
  <2>1. Settled(g, A) /\ Settled(h, {c})
    BY <1>22, <1>24 DEF Settled, Fine
  <2> QED
    BY <1>1, <1>21, <1>23, <2>1 DEF Settled
<1>26. Owners(h)
  <2>1. ASSUME NEW a \in Addr, h.owner[a] # NoTask
        PROVE  h.owner[a] \in h.held[h.owner[a][1]] /\ Type(h, h.owner[a]) = "sync"
    <3>1. g.owner[a] \in TaskId
      <4>1. g.owner \in [Addr -> TaskId \cup {NoTask}]
        BY <1>1 DEF IsGraph
      <4> QED
        BY <4>1, <1>2, <2>1
    <3>2. g.owner[a] \in g.held[g.owner[a][1]] /\ Type(g, g.owner[a]) = "sync"
      BY <1>2, <2>1 DEF Fine, Owners
    <3>3. g.owner[a][1] \in Context
      BY <3>1 DEF TaskId
    <3>4. g.owner[a] \in DOMAIN g.tasks
      BY <1>1, <3>2, <3>3 DEF IsGraph
    <3> QED
      BY <1>2, <3>2, <3>4
  <2> QED
    BY <1>2, <2>1 DEF Owners, Fine
<1>27. Frozen(g, h)
  <2>1. b \notin g.queued
    BY <1>2, <1>3
  <2> QED
    BY <1>1, <1>2, <2>1, ZenonT(60) DEF Frozen, IsGraph
<1>28. Sees(g, h, c, A)
  BY <1>10, <1>21, <1>23, <1>27 DEF Sees
<1>29. Awaiting(h, c) /\ \A d \in Context \ {c} : Awaiting(h, d) <=> Awaiting(g, d)
  <2>1. \A d : Awaiting(h, d) <=> d = c \/ d \in P
    BY <1>2, <1>3 DEF Awaiting, new
  <2>2. \A d : Awaiting(g, d) <=> d \in P
    BY <1>2, <1>3 DEF Awaiting, P
  <2> QED
    BY <2>1, <2>2
<1> QED
  BY <1>2, <1>10, <1>20, <1>21, <1>22, <1>24, <1>25, <1>26, <1>28, <1>29 DEF Fine, Entered

LEMMA MakeIs ==
  ASSUME NEW g, IsGraph(g), NEW n \in TaskId, n \notin DOMAIN g.tasks
  PROVE  LET h == Make([g EXCEPT !.entry = n], n, "barrier")
         IN  /\ IsGraph(h) /\ h.tasks = Put(g.tasks, n, NewTask("barrier"))
             /\ h.held = g.held /\ h.queued = g.queued
             /\ h.creators = g.creators /\ h.joins = g.joins /\ h.exited = g.exited
             /\ h.owner = g.owner /\ h.entry = n /\ h.exits = g.exits
<1> DEFINE f == Put(g.tasks, n, NewTask("barrier"))
           k == [g EXCEPT !.entry = n]
           m == [k EXCEPT !.tasks = f]
           T == [type : Types, pred : SUBSET TaskId, succ : SUBSET TaskId]
<1>1. /\ DOMAIN f = DOMAIN g.tasks \cup {n} /\ f[n] = NewTask("barrier")
      /\ \A w \in DOMAIN g.tasks : f[w] = g.tasks[w]
      /\ f = [w \in DOMAIN f |-> f[w]]
  BY DEF Put
<1>2. f \in [DOMAIN f -> T]
  <2>1. NewTask("barrier") \in T
    BY DEF NewTask, Types
  <2>2. \A w \in DOMAIN g.tasks : g.tasks[w] \in T
    BY DEF IsGraph
  <2> HIDE DEF f, T
  <2> QED
    BY <1>1, <2>1, <2>2
<1> HIDE DEF f
<1>3. /\ m.tasks = f
      /\ m.held = g.held /\ m.queued = g.queued
      /\ m.creators = g.creators /\ m.joins = g.joins /\ m.exited = g.exited
      /\ m.owner = g.owner /\ m.entry = n /\ m.exits = g.exits /\ m.failed = g.failed
      /\ m = [x \in GraphFields |-> m[x]] /\ k.tasks = g.tasks
  BY DEF IsGraph, GraphFields
<1>4. Make(k, n, "barrier") = Check(m, n \notin DOMAIN g.tasks)
  BY <1>3 DEF Make, f
<1> HIDE DEF m, k
<1>5. m.held \in [Context -> SUBSET DOMAIN m.tasks] /\ m.queued \subseteq DOMAIN m.tasks
  <2>1. g.held \in [Context -> SUBSET DOMAIN g.tasks] /\ g.queued \subseteq DOMAIN g.tasks
    BY DEF IsGraph
  <2> QED
    BY <1>1, <1>3, <2>1
<1>6. IsGraph(m)
  BY <1>1, <1>2, <1>3, <1>5 DEF IsGraph
<1>7. Make(k, n, "barrier") = m
  BY <1>4, <1>6, CheckIs
<1> QED
  BY <1>3, <1>6, <1>7 DEF k, f

\* The block t of c is linked to the barrier that has been entered by others, or that c
\* is the first to enter.
LEMMA EdgeToEntry ==
  ASSUME NEW g, NEW c, NEW A, NEW J, NEW t, Current(g, c, A, J, t),
         Type(g, t) = "basic_blocks", g.entry # NoTask
  PROVE  IsEntered(g, Edge(g, t, g.entry), c, t, g.entry)
<1> DEFINE b == g.entry
           h == Edge(g, t, b)
<1>1. /\ IsGraph(g) /\ Barriers(g) /\ t \in DOMAIN g.tasks /\ b \in Open(g)
  BY CurrentFacts DEF Open
<1>2. /\ OpenOK(g, b) /\ g.tasks[b].succ = {}
  BY <1>1 DEF Barriers
<1>3. b \in DOMAIN g.tasks /\ b # t /\ b[2] # 0 /\ Type(g, b) = "barrier" /\ b # NoTask
  BY <1>2 DEF OpenOK
<1>4. IsEdge(g, h, t, b)
  BY <1>1, <1>3, EdgeIs
<1> HIDE DEF h
<1> QED
  BY <1>1, <1>2, <1>3, <1>4 DEF IsEntered, IsEdge, SameMaps, h

LEMMA EdgeToNew ==
  ASSUME NEW g, NEW c, NEW A, NEW J, NEW t, Current(g, c, A, J, t),
         Type(g, t) = "basic_blocks", g.entry = NoTask
  PROVE  LET b == getNext(t)
         IN  IsEntered(g, Edge(Make([g EXCEPT !.entry = b], b, "barrier"), t, b), c, t, b)
<1> DEFINE b == getNext(t)
           m == Make([g EXCEPT !.entry = b], b, "barrier")
           h == Edge(m, t, b)
<1>1. /\ IsGraph(g) /\ Barriers(g) /\ t \in DOMAIN g.tasks /\ IsActive(g, c, t) /\ ~Inside(g, c)
      /\ t[1] = c
  BY CurrentFacts
<1>2. b \in TaskId /\ b # t /\ b[1] = c /\ b[2] = t[2] + 1 /\ b[2] # 0 /\ t[2] \in Nat /\ b # NoTask
  <2>1. b \in TaskId /\ b # t /\ b[1] = t[1] /\ b[2] = t[2] + 1 /\ t[2] \in Nat
    BY <1>1, TaskFacts
  <2>2. b # NoTask
    BY <2>1 DEF NoTask, None
  <2> QED
    BY <1>1, <2>1, <2>2
<1>3. b \notin DOMAIN g.tasks
  <2>1. \A u \in DOMAIN g.tasks : u[1] = c => u[2] <= t[2]
    BY <1>1 DEF IsActive, Inside
  <2> QED
    BY <1>2, <2>1
<1> HIDE DEF b
<1>4. /\ IsGraph(m) /\ m.tasks = Put(g.tasks, b, NewTask("barrier"))
      /\ m.held = g.held /\ m.queued = g.queued
      /\ m.creators = g.creators /\ m.joins = g.joins /\ m.exited = g.exited
      /\ m.owner = g.owner /\ m.entry = b /\ m.exits = g.exits
  BY <1>1, <1>2, <1>3, MakeIs
<1> HIDE DEF m
<1>5. /\ DOMAIN m.tasks = DOMAIN g.tasks \cup {b} /\ m.tasks[b] = NewTask("barrier")
      /\ \A w \in DOMAIN g.tasks : m.tasks[w] = g.tasks[w]
  BY <1>3, <1>4 DEF Put
<1>6. m.tasks[b].type = "barrier" /\ m.tasks[b].pred = {} /\ m.tasks[b].succ = {}
  BY <1>5 DEF NewTask
<1>7. IsEdge(m, h, t, b)
  BY <1>1, <1>2, <1>4, <1>5, EdgeIs
<1> HIDE DEF h
<1>8. /\ DOMAIN h.tasks = DOMAIN m.tasks
      /\ \A w \in DOMAIN m.tasks :
            /\ Type(h, w) = Type(m, w)
            /\ h.tasks[w].succ = IF w = t THEN m.tasks[w].succ \cup {b} ELSE m.tasks[w].succ
            /\ h.tasks[w].pred = IF w = b THEN m.tasks[w].pred \cup {t} ELSE m.tasks[w].pred
            /\ w \notin {t, b} => h.tasks[w] = m.tasks[w]
      /\ IsGraph(h) /\ h.held = m.held /\ h.queued = m.queued /\ SameMaps(m, h)
  BY <1>7 DEF IsEdge
<1>9. Type(h, b) = "barrier" /\ h.tasks[b].succ = {} /\ h.tasks[b].pred = {t}
  <2>1. b \in DOMAIN m.tasks /\ b # t
    BY <1>2, <1>5
  <2> QED
    BY <1>6, <1>8, <2>1 DEF Type
<1>10. ASSUME NEW w \in DOMAIN g.tasks
       PROVE  /\ Type(h, w) = Type(g, w)
              /\ w # b => h.tasks[w].pred = g.tasks[w].pred
              /\ g.tasks[w].succ \subseteq h.tasks[w].succ
              /\ w \notin {t, b} => h.tasks[w] = g.tasks[w]
  <2>1. w \in DOMAIN m.tasks /\ m.tasks[w] = g.tasks[w]
    BY <1>5
  <2> QED
    BY <1>8, <2>1 DEF Type
<1> QED
  BY <1>2, <1>3, <1>4, <1>5, <1>8, <1>9, <1>10 DEF IsEntered, SameMaps, h, m, b

LEMMA EnterOK ==
  ASSUME NEW g, NEW c, NEW A, NEW J, NEW t, Current(g, c, A, J, t), Fine(g, A, J),
         c \in plan.party
  PROVE  Entered(g, Enter(g, c), c, A, J)
<1> DEFINE m == NextBlock(g, c)
           k == activeTask(m, c)
           h == Enter(g, c)
           others == {i \in DOMAIN g.exits : c \notin Contexts(g.tasks[g.exits[i]].pred)}
<1>1. PICK n : /\ Moved(g, m, c, A, J, n) /\ SyncsStay(g, m, NoTask)
               /\ Type(m, n) = "basic_blocks"
  BY NextBlockOK
<1>2. IsGraph(g) /\ Numbered(g) /\ Barriers(g) /\ Settled(g, A) /\ Owners(g) /\ c \in Context
  BY CurrentFacts DEF Fine
<1>3. others = {}
  BY <1>2 DEF Barriers
<1>4. h = IF m.entry # NoTask THEN Edge(m, k, m.entry)
          ELSE Edge(Make([m EXCEPT !.entry = getNext(k)], getNext(k), "barrier"), k, getNext(k))
  <2>1. m.entry = g.entry
    BY <1>1 DEF Moved, Quiet
  <2> HIDE DEF m, k
  <2> QED
    BY <1>3, <2>1 DEF Enter, m, k
<1> HIDE DEF m, h
<1>5. Current(m, c, A, J, n) /\ Quiet(g, m, c, A) /\ k = n
  BY <1>1, CurrentFacts DEF Moved
<1> HIDE DEF k
<1>6. /\ GraphOK(m, A, J) /\ Calm(g, m, c, A) /\ Settled(m, A)
  BY <1>1, <1>2, MovedSeen
<1>7. Owners(m)
  BY <1>1, <1>2, <1>5, OwnersStay
<1>8. Fine(m, A, J)
  BY <1>6, <1>7 DEF Fine
<1>9. \E b : IsEntered(m, h, c, n, b)
  <2>1. CASE m.entry # NoTask
    <3>1. IsEntered(m, Edge(m, n, m.entry), c, n, m.entry)
      BY <1>1, <1>5, <2>1, EdgeToEntry
    <3> QED
      BY <1>4, <1>5, <2>1, <3>1
  <2>2. CASE m.entry = NoTask
    <3>1. IsEntered(m, Edge(Make([m EXCEPT !.entry = getNext(n)], getNext(n), "barrier"), n, getNext(n)),
                    c, n, getNext(n))
      BY <1>1, <1>5, <2>2, EdgeToNew
    <3> QED
      BY <1>4, <1>5, <2>2, <3>1
  <2> QED
    BY <2>1, <2>2
<1>10. PICK b : IsEntered(m, h, c, n, b)
  BY <1>9
<1>11. Entered(m, h, c, A, J)
  BY <1>1, <1>5, <1>8, <1>10, EnteredOK
<1>12. Sees(g, h, c, A)
  BY <1>6, <1>11 DEF Entered, Calm, Sees, Frozen
<1>13. m.creators = g.creators /\ m.joins = g.joins /\ m.exited = g.exited
  BY <1>5 DEF Quiet
<1> QED
  BY <1>6, <1>11, <1>12, <1>13 DEF Entered, Calm, h

\* An element of a sequence is removed.
Listed(s, x) == \E j \in DOMAIN s : s[j] = x
Once(s)      == \A j, k \in DOMAIN s : s[j] = s[k] => j = k

LEMMA RemoveFacts ==
  ASSUME NEW X, NEW s \in Seq(X), NEW i \in DOMAIN s, Once(s)
  PROVE  /\ RemoveAt(s, i) \in Seq(X) /\ Once(RemoveAt(s, i))
         /\ \A x : Listed(RemoveAt(s, i), x) <=> (x # s[i] /\ Listed(s, x))
<1> DEFINE u == SubSeq(s, 1, i - 1)
           v == SubSeq(s, i + 1, Len(s))
           r == RemoveAt(s, i)
<1>1. i \in 1 .. Len(s) /\ Len(s) \in Nat /\ DOMAIN s = 1 .. Len(s)
  OBVIOUS
<1>2. /\ u \in Seq(X) /\ Len(u) = i - 1 /\ \A j \in 1 .. i - 1 : u[j] = s[j]
  BY <1>1
<1>3. /\ v \in Seq(X) /\ Len(v) = Len(s) - i /\ \A j \in 1 .. Len(s) - i : v[j] = s[j + i]
  OBVIOUS
<1>4. r = u \o v
  BY DEF RemoveAt
<1> HIDE DEF u, v
<1>5. /\ r \in Seq(X) /\ Len(r) = Len(s) - 1
      /\ \A j \in 1 .. Len(s) - 1 : r[j] = IF j < i THEN s[j] ELSE s[j + 1]
  <2>1. Len(u \o v) = Len(s) - 1 /\ u \o v \in Seq(X)
    BY <1>2, <1>3
  <2>2. ASSUME NEW j \in 1 .. Len(s) - 1
        PROVE  (u \o v)[j] = IF j < i THEN s[j] ELSE s[j + 1]
    <3>1. CASE j < i
      BY <1>2, <1>3, <3>1
    <3>2. CASE ~(j < i)
      <4>1. (u \o v)[j] = v[j - (i - 1)]
        BY <1>1, <1>2, <1>3, <3>2
      <4>2. v[j - (i - 1)] = s[j - (i - 1) + i] /\ j - (i - 1) + i = j + 1
        BY <1>3, <3>2
      <4> QED
        BY <3>2, <4>1, <4>2
    <3> QED
      BY <3>1, <3>2
  <2> QED
    BY <1>4, <2>1, <2>2
<1> HIDE DEF r
<1>6. DOMAIN r = 1 .. Len(s) - 1
  BY <1>1, <1>5
<1>7. ASSUME NEW j \in DOMAIN r
      PROVE  /\ (j < i => r[j] = s[j] /\ j \in DOMAIN s)
             /\ (j >= i => r[j] = s[j + 1] /\ j + 1 \in DOMAIN s)
  BY <1>1, <1>5, <1>6, <1>7
<1>8. ASSUME NEW j \in DOMAIN r, NEW k \in DOMAIN r, r[j] = r[k] PROVE j = k
  <2>1. j \in Int /\ k \in Int
    BY <1>1, <1>6
  <2> QED
    BY <1>1, <1>7, <1>8, <2>1 DEF Once
<1>9. ASSUME NEW j \in DOMAIN r PROVE r[j] # s[i] /\ \E k \in DOMAIN s : s[k] = r[j]
  <2>1. j \in Int
    BY <1>1, <1>6
  <2> QED
    BY <1>1, <1>7, <2>1 DEF Once
<1>10. ASSUME NEW k \in DOMAIN s, s[k] # s[i] PROVE \E j \in DOMAIN r : r[j] = s[k]
  <2>1. CASE k < i
    <3>1. k \in DOMAIN r
      BY <1>1, <1>6, <2>1
    <3> QED
      BY <1>7, <2>1, <3>1
  <2>2. CASE k > i
    <3>1. k - 1 \in DOMAIN r /\ k - 1 >= i /\ (k - 1) + 1 = k
      BY <1>1, <1>6, <2>2
    <3>2. r[k - 1] = s[k]
      BY <1>7, <3>1
    <3> QED
      BY <3>1, <3>2
  <2> QED
    BY <1>1, <1>10, <2>1, <2>2
<1> QED
  BY <1>5, <1>8, <1>9, <1>10 DEF r, Once, Listed

LEMMA AppendFacts ==
  ASSUME NEW X, NEW s \in Seq(X), NEW y \in X, ~Listed(s, y), Once(s)
  PROVE  LET r == Append(s, y)
         IN  /\ r \in Seq(X) /\ Len(r) \in DOMAIN r /\ r[Len(r)] = y /\ Once(r)
             /\ \A x : Listed(r, x) <=> (x = y \/ Listed(s, x))
<1> DEFINE r == Append(s, y)
           n == Len(s)
<1>1. n \in Nat /\ DOMAIN s = 1 .. n
  OBVIOUS
<1>2. /\ r \in Seq(X) /\ Len(r) = n + 1 /\ DOMAIN r = 1 .. n + 1 /\ r[n + 1] = y
      /\ \A i \in 1 .. n : r[i] = s[i]
  OBVIOUS
<1> HIDE DEF r, n
<1>3. \A i \in DOMAIN r : i = n + 1 \/ i \in DOMAIN s
  BY <1>1, <1>2
<1>4. \A i \in DOMAIN s : i \in DOMAIN r /\ r[i] = s[i]
  BY <1>1, <1>2
<1>5. n + 1 \in DOMAIN r
  BY <1>1, <1>2
<1>6. \A j, k \in DOMAIN r : r[j] = r[k] => j = k
  BY <1>2, <1>3, <1>4 DEF Once, Listed
<1> QED
  BY <1>2, <1>3, <1>4, <1>5, <1>6 DEF r, Once, Listed

LEMMA OnePerCard ==
  ASSUME NEW ts, OnePer(ts)
  PROVE  IsFiniteSet(Contexts(ts)) /\ Cardinality(Contexts(ts)) = Cardinality(ts)
<1> DEFINE f == [t \in ts |-> t[1]]
<1>1. IsFiniteSet(ts) /\ \A t, u \in ts : t[1] = u[1] => t = u
  BY DEF OnePer
<1>2. f \in Bijection(ts, Contexts(ts))
  BY <1>1 DEF Contexts, Bijection, Injection, Surjection, IsInjective
<1> QED
  BY <1>1, <1>2, FS_Bijection DEF ExistsBijection

\* All but one have left if they are one fewer.
LEMMA OneLeft ==
  ASSUME NEW ps, NEW ss, OnePer(ps), OnePer(ss), Contexts(ss) \subseteq Contexts(ps),
         NEW c, c \in Contexts(ps), c \notin Contexts(ss)
  PROVE  (Cardinality(ps) = 1 + Cardinality(ss)) <=> (Contexts(ps) = Contexts(ss) \cup {c})
<1> DEFINE P == Contexts(ps)
           S == Contexts(ss)
<1>1. /\ IsFiniteSet(P) /\ Cardinality(P) = Cardinality(ps)
      /\ IsFiniteSet(S) /\ Cardinality(S) = Cardinality(ss)
  BY OnePerCard
<1>2. c \in P /\ c \notin S /\ S \subseteq P
  OBVIOUS
<1> HIDE DEF P, S
<1>3. Cardinality(S \cup {c}) = Cardinality(S) + 1 /\ Cardinality(S) \in Nat
  BY <1>1, <1>2, FS_AddElement, FS_CardinalityType
<1>4. S \cup {c} \in SUBSET P
  BY <1>2
<1>5. Cardinality(P) = Cardinality(S \cup {c}) => P = S \cup {c}
  BY <1>1, <1>4, FS_Subset
<1>6. (Cardinality(P) = 1 + Cardinality(S)) <=> (P = S \cup {c})
  <2>1. Cardinality(P) = 1 + Cardinality(S) => Cardinality(P) = Cardinality(S \cup {c})
    BY <1>3
  <2>2. P = S \cup {c} => Cardinality(P) = 1 + Cardinality(S)
    BY <1>3
  <2> QED
    BY <1>5, <2>1, <2>2
<1> QED
  BY <1>1, <1>6 DEF P, S

\* Context c, whose active task is block t, leaves the barrier b.
Leaving(g, c, A, J, t, b) ==
    /\ A \subseteq Context /\ J \subseteq Context /\ c \in A /\ c \notin J
    /\ Fine(g, A, J) /\ IsActive(g, c, t) /\ b \in Open(g) /\ Within(g, b, c)
    /\ b = g.entry => Contexts(g.tasks[b].pred) = plan.party

\* Its next task.
NextOf(t, b, c) == IF b[1] = c THEN getNext(b) ELSE getNext(t)

\* The barrier if all the others have left.
LastOf(g, b, c) ==
    IF Contexts(g.tasks[b].pred) = Contexts(g.tasks[b].succ) \cup {c} THEN {b} ELSE {}

LEMMA LeavingFacts ==
  ASSUME NEW g, NEW c, NEW A, NEW J, NEW t, NEW b, Leaving(g, c, A, J, t, b)
  PROVE  /\ A \in SUBSET Context /\ J \in SUBSET Context /\ c \in Context /\ c \in A /\ c \notin J
         /\ GraphOK(g, A, J) /\ IsGraph(g) /\ Numbered(g) /\ Actives(g, A) /\ Sound(g, J)
         /\ Barriers(g) /\ Settled(g, A) /\ Owners(g)
         /\ IsActive(g, c, t) /\ activeTask(g, c) = t /\ t \in DOMAIN g.tasks /\ t[1] = c
         /\ t[2] \in Nat /\ t \in g.held[c] /\ t \notin g.queued /\ Type(g, t) = "basic_blocks"
         /\ OpenOK(g, b) /\ b \in Open(g) /\ Within(g, b, c) /\ b \in DOMAIN g.tasks /\ b # t
         /\ b[1] \in Context /\ Type(g, b) = "barrier" /\ b \notin g.queued /\ b # NoTask
         /\ \A a \in Open(g) : Within(g, a, c) => a = b
         /\ (b[1] = c => b = getNext(t))
<1>1. /\ A \in SUBSET Context /\ J \in SUBSET Context /\ c \in Context /\ c \in A /\ c \notin J
      /\ GraphOK(g, A, J) /\ Settled(g, A) /\ Owners(g)
      /\ IsActive(g, c, t) /\ b \in Open(g) /\ Within(g, b, c)
  BY DEF Leaving, Fine
<1>2. IsGraph(g) /\ Numbered(g) /\ Actives(g, A) /\ Sound(g, J) /\ Barriers(g)
  BY <1>1 DEF GraphOK, Sound
<1>3. /\ activeTask(g, c) = t /\ t \in DOMAIN g.tasks /\ t[1] = c /\ t \in g.held[c]
      /\ t \notin g.queued
  BY <1>1, <1>2, ActiveIs
<1>4. t[2] \in Nat
  BY <1>2, <1>3, TaskFacts
<1>5. Type(g, t) = "basic_blocks"
  <2>1. Inside(g, c)
    BY <1>1 DEF Inside
  <2> QED
    BY <1>1, <1>3, <2>1 DEF Settled
<1>6. OpenOK(g, b)
  BY <1>1, <1>2 DEF Barriers
<1>7. b \in DOMAIN g.tasks /\ Type(g, b) = "barrier" /\ b \notin g.queued /\ b # t
  BY <1>5, <1>6 DEF OpenOK
<1>8. b[1] \in Context /\ b # NoTask
  BY <1>2, <1>7, TaskFacts
<1>9. \A a \in Open(g) : Within(g, a, c) => a = b
  BY <1>1, <1>2 DEF Barriers
<1>10. b[1] = c => b = getNext(t)
  BY <1>1 DEF IsActive
<1> QED
  BY <1>1, <1>2, <1>3, <1>4, <1>5, <1>6, <1>7, <1>8, <1>9, <1>10

LEMMA NextFacts ==
  ASSUME NEW g, NEW c, NEW A, NEW J, NEW t, NEW b, Leaving(g, c, A, J, t, b)
  PROVE  LET n == NextOf(t, b, c)
         IN  /\ n \in TaskId /\ n \notin DOMAIN g.tasks /\ n[1] = c /\ n[2] \in Nat
             /\ n[2] > t[2] /\ n = <<c, n[2]>>
             /\ \A i \in 0 .. n[2] : i = n[2] \/ <<c, i>> \in DOMAIN g.tasks
             /\ \A u \in DOMAIN g.tasks : u[1] = c => u[2] < n[2]
<1> DEFINE n == NextOf(t, b, c)
<1>1. /\ IsGraph(g) /\ Numbered(g) /\ IsActive(g, c, t) /\ t \in DOMAIN g.tasks /\ t[1] = c /\ t[2] \in Nat
      /\ b \in DOMAIN g.tasks /\ (b[1] = c => b = getNext(t)) /\ c \in Context
      /\ \A a \in Open(g) : Within(g, a, c) => a = b
  BY LeavingFacts
<1>2. \A u \in DOMAIN g.tasks : u[1] = c => u[2] <= t[2] \/ (u = getNext(t) /\ u = b)
  BY <1>1 DEF IsActive
<1>3. getNext(t) = <<c, t[2] + 1>> /\ getNext(t)[1] = c /\ getNext(t)[2] = t[2] + 1
  BY <1>1 DEF getNext
<1>4. \A u \in DOMAIN g.tasks : u[2] \in Nat
  BY <1>1, TaskFacts
<1>5. /\ n = <<c, n[2]>> /\ n[1] = c /\ n[2] \in Nat /\ n[2] > t[2]
      /\ \A u \in DOMAIN g.tasks : u[1] = c => u[2] < n[2]
      /\ <<c, n[2] - 1>> \in DOMAIN g.tasks
  <2>1. CASE b[1] = c
    <3>1. n = <<c, t[2] + 2>>
      BY <1>1, <1>3, <2>1 DEF NextOf, getNext
    <3>2. n[1] = c /\ n[2] = t[2] + 2 /\ n[2] - 1 = t[2] + 1
      BY <1>1, <3>1
    <3>3. \A u \in DOMAIN g.tasks : u[1] = c => u[2] < n[2]
      BY <1>1, <1>2, <1>3, <1>4, <3>2
    <3>4. <<c, n[2] - 1>> \in DOMAIN g.tasks
      BY <1>1, <1>3, <2>1, <3>2
    <3> QED
      BY <1>1, <3>1, <3>2, <3>3, <3>4
  <2>2. CASE b[1] # c
    <3>1. n = <<c, t[2] + 1>>
      BY <1>3, <2>2 DEF NextOf
    <3>2. n[1] = c /\ n[2] = t[2] + 1 /\ n[2] - 1 = t[2]
      BY <1>1, <3>1
    <3>3. \A u \in DOMAIN g.tasks : u[1] = c => u[2] < n[2]
      BY <1>1, <1>2, <1>4, <2>2, <3>2
    <3>4. t = <<c, t[2]>>
      BY <1>1, TaskFacts
    <3> QED
      BY <1>1, <3>1, <3>2, <3>3, <3>4
  <2> QED
    BY <2>1, <2>2
<1> HIDE DEF n
<1>6. n \in TaskId /\ n \notin DOMAIN g.tasks
  BY <1>1, <1>5 DEF TaskId
<1>7. ASSUME NEW i \in 0 .. n[2] PROVE i = n[2] \/ <<c, i>> \in DOMAIN g.tasks
  <2>1. CASE i = n[2]
    BY <2>1
  <2>2. CASE i # n[2]
    <3>1. i \in 0 .. n[2] - 1
      BY <1>5, <2>2
    <3> DEFINE x == <<c, n[2] - 1>>
    <3>2. x \in DOMAIN g.tasks /\ x[1] = c /\ x[2] = n[2] - 1
      BY <1>5
    <3> HIDE DEF x
    <3>3. <<x[1], i>> \in DOMAIN g.tasks
      BY <1>1, <3>1, <3>2 DEF Numbered
    <3> QED
      BY <3>2, <3>3
  <2> QED
    BY <2>1, <2>2
<1> QED
  BY <1>5, <1>6, <1>7 DEF n

\* The sequence of the barriers that are being left, after c has left b.
IsExits(g, h, b, z) ==
    /\ h.exits \in Seq(TaskId)
    /\ h.entry = IF g.entry = b THEN NoTask ELSE g.entry
    /\ Once(h.exits)
    /\ \A x : Listed(h.exits, x) <=> x \notin z /\ (x = b \/ Listed(g.exits, x))

SameRest(g, h) ==
    /\ h.creators = g.creators /\ h.joins = g.joins /\ h.exited = g.exited
    /\ h.owner = g.owner

IsFound(g, h, b, z) ==
    /\ IsGraph(h) /\ h.tasks = g.tasks /\ h.held = g.held /\ h.queued = g.queued
    /\ SameRest(g, h) /\ IsExits(g, h, b, z)

IsLeft(g, h, c, t, b, n, z) ==
    /\ IsGraph(h) /\ DOMAIN h.tasks = DOMAIN g.tasks \cup {n}
    /\ h.tasks[n] = [type |-> "basic_blocks", pred |-> {t, b}, succ |-> {}]
    /\ \A w \in DOMAIN g.tasks :
          /\ Type(h, w) = Type(g, w) /\ h.tasks[w].pred = g.tasks[w].pred
          /\ h.tasks[w].succ = IF w \in {t, b} THEN g.tasks[w].succ \cup {n} ELSE g.tasks[w].succ
          /\ w \notin {t, b} => h.tasks[w] = g.tasks[w]
    /\ \A d \in Context : \A u : u \in h.held[d] <=>
          /\ u \notin z /\ u # t
          /\ u \in g.held[d] \/ (d = c /\ u = n) \/ (d = c /\ u = b /\ b[1] = c)
    /\ h.queued = g.queued \cup {t} \cup z
    /\ SameRest(g, h) /\ IsExits(g, h, b, z)

\* Leave finds the barrier b, and takes it from the list when c is the last.
LEMMA LeaveExits ==
  ASSUME NEW g, NEW c, NEW A, NEW J, NEW t, NEW b, Leaving(g, c, A, J, t, b)
  PROVE  LET mine == {i \in DOMAIN g.exits : /\ c \in Contexts(g.tasks[g.exits[i]].pred)
                                             /\ c \notin Contexts(g.tasks[g.exits[i]].succ)}
             g1   == IF mine # {} THEN g
                     ELSE [Check(g, c \in Contexts(g.tasks[b].pred)) EXCEPT
                              !.entry = NoTask, !.exits = Append(@, b)]
             z    == LastOf(g, b, c)
             at   == IF mine # {} THEN Min(mine) ELSE Len(g1.exits)
             h    == IF z # {} THEN [g1 EXCEPT !.exits = RemoveAt(@, at)] ELSE g1
         IN  /\ b = IF mine # {} THEN g.exits[Min(mine)] ELSE g.entry
             /\ IsFound(g, h, b, z)
<1> DEFINE mine == {i \in DOMAIN g.exits : /\ c \in Contexts(g.tasks[g.exits[i]].pred)
                                           /\ c \notin Contexts(g.tasks[g.exits[i]].succ)}
           g1   == IF mine # {} THEN g
                   ELSE [Check(g, c \in Contexts(g.tasks[b].pred)) EXCEPT
                            !.entry = NoTask, !.exits = Append(@, b)]
           z    == LastOf(g, b, c)
           at   == IF mine # {} THEN Min(mine) ELSE Len(g1.exits)
           h    == IF z # {} THEN [g1 EXCEPT !.exits = RemoveAt(@, at)] ELSE g1
           s    == IF mine # {} THEN g.exits ELSE Append(g.exits, b)
           r    == IF z # {} THEN RemoveAt(s, at) ELSE s
<1>1. /\ IsGraph(g) /\ Barriers(g) /\ b \in Open(g) /\ Within(g, b, c) /\ b \in DOMAIN g.tasks
      /\ b # NoTask /\ \A a \in Open(g) : Within(g, a, c) => a = b
  BY LeavingFacts
<1>2. /\ g.exits \in Seq(TaskId) /\ b \in TaskId
      /\ Once(g.exits) /\ (g.entry # NoTask => ~Listed(g.exits, g.entry))
  BY <1>1 DEF IsGraph, Barriers, Once, Listed
<1>3. mine = {i \in DOMAIN g.exits : g.exits[i] = b}
  <2>1. \A i \in DOMAIN g.exits : g.exits[i] \in Open(g)
    BY DEF Open
  <2>2. \A i \in DOMAIN g.exits : i \in mine <=> Within(g, g.exits[i], c)
    BY DEF Within
  <2>3. \A i \in DOMAIN g.exits : Within(g, g.exits[i], c) <=> g.exits[i] = b
    BY <1>1, <2>1
  <2> QED
    BY <2>2, <2>3
<1> HIDE DEF mine
<1>4. /\ b = (IF mine # {} THEN g.exits[Min(mine)] ELSE g.entry)
      /\ s \in Seq(TaskId) /\ at \in DOMAIN s /\ s[at] = b
      /\ Once(s) /\ \A x : Listed(s, x) <=> (x = b \/ Listed(g.exits, x))
      /\ g1.exits = s /\ g1.entry = IF g.entry = b THEN NoTask ELSE g.entry
      /\ g1 = [f \in GraphFields |-> g1[f]]
      /\ g1.tasks = g.tasks /\ g1.held = g.held /\ g1.queued = g.queued /\ g1.failed = g.failed
      /\ SameRest(g, g1)
  <2>1. CASE mine # {}
    <3>1. Min(mine) \in mine
      <4>1. mine \in SUBSET Nat
        BY <1>2, <1>3
      <4> QED
        BY <2>1, <4>1, LeastNumber
    <3>2. Min(mine) \in DOMAIN g.exits /\ g.exits[Min(mine)] = b /\ g.entry # b
      BY <1>1, <1>2, <1>3, <3>1 DEF Listed
    <3>3. s = g.exits /\ at \in DOMAIN s /\ s[at] = b
      BY <2>1, <3>2
    <3>8. \A x : Listed(s, x) <=> (x = b \/ Listed(g.exits, x))
      BY <3>3 DEF Listed
    <3>4. s \in Seq(TaskId) /\ Once(s)
      BY <1>2, <3>3
    <3>5. g1 = g /\ g1.entry = IF g.entry = b THEN NoTask ELSE g.entry
      BY <2>1, <3>2
    <3>6. g1 = [f \in GraphFields |-> g1[f]]
      <4>1. g = [f \in GraphFields |-> g[f]]
        BY <1>1 DEF IsGraph
      <4>2. g1 = g
        BY <3>5
      <4> HIDE DEF g1
      <4> QED
        BY <4>1, <4>2
    <3>7. SameRest(g, g1) /\ g1.exits = s
      BY <3>3, <3>5 DEF SameRest
    <3> HIDE DEF s, g1, at
    <3> QED
      BY <2>1, <3>2, <3>3, <3>4, <3>5, <3>6, <3>7, <3>8
  <2>2. CASE mine = {}
    <3>1. ~Listed(g.exits, b)
      BY <1>3, <2>2 DEF Listed
    <3>2. b = g.entry
      BY <1>1, <3>1 DEF Open, Listed
    <3>3. Check(g, c \in Contexts(g.tasks[b].pred)) = g
      BY <1>1, CheckIs DEF Within
    <3>4. /\ g1.exits = Append(g.exits, b) /\ g1.entry = NoTask
          /\ g1 = [f \in GraphFields |-> g1[f]]
          /\ g1.tasks = g.tasks /\ g1.held = g.held /\ g1.queued = g.queued
          /\ g1.failed = g.failed /\ SameRest(g, g1)
      BY <1>1, <2>2, <3>3 DEF IsGraph, GraphFields, SameRest
    <3>5. s = Append(g.exits, b) /\ at = Len(s)
      BY <2>2, <3>4
    <3> DEFINE q == Append(g.exits, b)
    <3>6. /\ q \in Seq(TaskId) /\ Len(q) \in DOMAIN q /\ q[Len(q)] = b
          /\ Once(q) /\ \A x : Listed(q, x) <=> (x = b \/ Listed(g.exits, x))
      BY <1>2, <3>1, AppendFacts
    <3> HIDE DEF q, s, g1, at
    <3> QED
      BY <2>2, <3>2, <3>4, <3>5, <3>6 DEF q
  <2> QED
    BY <2>1, <2>2
<1> HIDE DEF g1, at, s
<1>5. /\ r \in Seq(TaskId) /\ Once(r)
      /\ \A x : Listed(r, x) <=> x \notin z /\ (x = b \/ Listed(g.exits, x))
  <2>1. CASE z # {}
    <3>1. z = {b}
      BY <2>1 DEF LastOf
    <3>2. r = RemoveAt(s, at)
      BY <2>1
    <3>3. s \in Seq(TaskId) /\ at \in DOMAIN s /\ Once(s)
      BY <1>4
    <3>4. /\ RemoveAt(s, at) \in Seq(TaskId) /\ Once(RemoveAt(s, at))
          /\ \A x : Listed(RemoveAt(s, at), x) <=> (x # s[at] /\ Listed(s, x))
      BY <3>3, RemoveFacts
    <3> HIDE DEF r
    <3> QED
      BY <1>4, <3>1, <3>2, <3>4
  <2>2. CASE z = {}
    <3>1. r = s
      BY <2>2
    <3> HIDE DEF r
    <3> QED
      BY <1>4, <2>2, <3>1
  <2> QED
    BY <2>1, <2>2
<1>7. /\ h.exits = r /\ h.entry = g1.entry
      /\ h = [f \in GraphFields |-> h[f]]
      /\ h.tasks = g.tasks /\ h.held = g.held /\ h.queued = g.queued /\ h.failed = g.failed
      /\ SameRest(g, h)
  <2>1. CASE z # {}
    <3>1. r = RemoveAt(g1.exits, at) /\ h = [g1 EXCEPT !.exits = RemoveAt(@, at)]
      BY <1>4, <2>1
    <3> HIDE DEF r, h
    <3> QED
      BY <1>4, <3>1 DEF GraphFields, SameRest
  <2>2. CASE z = {}
    BY <1>4, <2>2
  <2> QED
    BY <2>1, <2>2
<1> HIDE DEF h, r
<1>8. h.entry \in TaskId \cup {NoTask}
  BY <1>1, <1>4, <1>7 DEF IsGraph
<1>9. IsGraph(h)
  BY <1>1, <1>5, <1>7, <1>8 DEF IsGraph, SameRest
<1>10. IsExits(g, h, b, z)
  BY <1>4, <1>5, <1>7 DEF IsExits
<1>11. IsFound(g, h, b, z)
  BY <1>7, <1>9, <1>10 DEF IsFound
<1>12. b = IF mine # {} THEN g.exits[Min(mine)] ELSE g.entry
  BY <1>4
<1> QED
  BY <1>11, <1>12, ZenonT(60) DEF h, g1, at, mine, z

\* The barrier is held by its owner once that has left it, and by the last to leave.
LEMMA HoldIs ==
  ASSUME NEW g, IsGraph(g), NEW c \in Context, NEW b \in DOMAIN g.tasks
  PROVE  LET h == Hold(g, c, b)
         IN  /\ IsGraph(h) /\ h.tasks = g.tasks /\ h.queued = g.queued /\ SameMaps(g, h)
             /\ h.held = [g.held EXCEPT ![c] = @ \cup {b}]
<1> DEFINE h == Hold(g, c, b)
<1>1. /\ h.tasks = g.tasks /\ h.queued = g.queued /\ SameMaps(g, h) /\ h.failed = g.failed
      /\ h.held = [g.held EXCEPT ![c] = @ \cup {b}]
      /\ h = [f \in GraphFields |-> h[f]]
  BY DEF Hold, IsGraph, GraphFields, SameMaps
<1> HIDE DEF h
<1>2. h.held \in [Context -> SUBSET DOMAIN h.tasks]
  <2>1. g.held \in [Context -> SUBSET DOMAIN g.tasks]
    BY DEF IsGraph
  <2> QED
    BY <1>1, <2>1
<1>3. IsGraph(h)
  BY <1>1, <1>2 DEF IsGraph, SameMaps
<1> QED
  BY <1>1, <1>3 DEF h

\* From the barrier that was found on.
LEMMA LeaveSteps ==
  ASSUME NEW g, NEW c, NEW A, NEW J, NEW t, NEW b, Leaving(g, c, A, J, t, b),
         NEW g2, IsFound(g, g2, b, LastOf(g, b, c))
  PROVE  LET next == NextOf(t, b, c)
             g3   == Edge(Add(IF b[1] = c THEN Hold(g2, c, b) ELSE g2, next, "basic_blocks"),
                          t, next)
             g4   == Edge(attemptBackgroundQueueTask(g3, t), b, next)
             h    == IF LastOf(g, b, c) # {} THEN Release(g4, b) ELSE g4
         IN  IsLeft(g, h, c, t, b, next, LastOf(g, b, c))
<1> DEFINE n  == NextOf(t, b, c)
           z  == LastOf(g, b, c)
           k1 == IF b[1] = c THEN Hold(g2, c, b) ELSE g2
           k2 == Add(k1, n, "basic_blocks")
           k3 == Edge(k2, t, n)
           k4 == attemptBackgroundQueueTask(k3, t)
           k5 == Edge(k4, b, n)
           h  == IF z # {} THEN Release(k5, b) ELSE k5
<1>1. /\ c \in Context /\ IsGraph(g) /\ Numbered(g) /\ Sound(g, J)
      /\ t \in DOMAIN g.tasks /\ t[1] = c /\ t \in g.held[c] /\ Type(g, t) = "basic_blocks"
      /\ OpenOK(g, b) /\ b \in DOMAIN g.tasks /\ b # t /\ b[1] \in Context
      /\ Type(g, b) = "barrier" /\ Within(g, b, c) /\ b # NoTask /\ t \notin g.queued
  BY LeavingFacts
<1>2. n \in TaskId /\ n \notin DOMAIN g.tasks /\ n[1] = c
  BY NextFacts
<1>3. n # t /\ n # b
  BY <1>1, <1>2
<1>4. /\ IsGraph(g2) /\ g2.tasks = g.tasks /\ g2.held = g.held /\ g2.queued = g.queued
      /\ SameRest(g, g2) /\ IsExits(g, g2, b, z)
  BY DEF IsFound
<1> HIDE DEF n, z
<1>5. /\ IsGraph(k1) /\ k1.tasks = g.tasks /\ k1.queued = g.queued /\ SameMaps(g2, k1)
      /\ \A d \in Context : \A u : u \in k1.held[d] <=>
            u \in g.held[d] \/ (d = c /\ u = b /\ b[1] = c)
  <2>1. CASE b[1] = c
    <3>1. b \in DOMAIN g2.tasks
      BY <1>1, <1>4
    <3>2. /\ IsGraph(k1) /\ k1.tasks = g2.tasks /\ k1.queued = g2.queued /\ SameMaps(g2, k1)
          /\ k1.held = [g2.held EXCEPT ![c] = @ \cup {b}]
      BY <1>1, <1>4, <2>1, <3>1, HoldIs
    <3> HIDE DEF k1
    <3>3. g.held \in [Context -> SUBSET DOMAIN g.tasks]
      BY <1>1 DEF IsGraph
    <3> QED
      BY <1>1, <1>4, <2>1, <3>2, <3>3
  <2>2. CASE b[1] # c
    BY <1>4, <2>2 DEF SameMaps
  <2> QED
    BY <2>1, <2>2
<1> HIDE DEF k1
<1>6. IsAdd(k1, k2, n, "basic_blocks")
  BY <1>2, <1>5, AddIs DEF Types
<1> HIDE DEF k2
<1>7. /\ IsGraph(k2) /\ DOMAIN k2.tasks = DOMAIN g.tasks \cup {n}
      /\ k2.tasks[n] = [type |-> "basic_blocks", pred |-> {}, succ |-> {}]
      /\ \A w \in DOMAIN g.tasks : k2.tasks[w] = g.tasks[w]
      /\ k2.queued = g.queued /\ SameMaps(g2, k2)
      /\ \A d \in Context : \A u : u \in k2.held[d] <=>
            u \in g.held[d] \/ (d = c /\ u = b /\ b[1] = c) \/ (d = c /\ u = n)
  <2>1. k1.held \in [Context -> SUBSET DOMAIN k1.tasks]
    BY <1>5 DEF IsGraph
  <2>2. k2.held = [k1.held EXCEPT ![c] = @ \cup {n}]
    BY <1>2, <1>6 DEF IsAdd
  <2>3. \A d \in Context : \A u : u \in k2.held[d] <=> u \in k1.held[d] \/ (d = c /\ u = n)
    BY <1>1, <2>1, <2>2
  <2>4. /\ IsGraph(k2) /\ DOMAIN k2.tasks = DOMAIN g.tasks \cup {n}
        /\ k2.tasks[n] = [type |-> "basic_blocks", pred |-> {}, succ |-> {}]
        /\ \A w \in DOMAIN g.tasks : k2.tasks[w] = g.tasks[w]
        /\ k2.queued = g.queued
    BY <1>5, <1>6 DEF IsAdd, NewTask
  <2>5. SameMaps(g2, k2)
    BY <1>5, <1>6 DEF IsAdd, SameMaps
  <2> QED
    BY <1>5, <2>3, <2>4, <2>5
<1>8. t \in DOMAIN k2.tasks /\ n \in DOMAIN k2.tasks /\ b \in DOMAIN k2.tasks
  BY <1>1, <1>7
<1>9. IsEdge(k2, k3, t, n)
  BY <1>3, <1>7, <1>8, EdgeIs
<1> HIDE DEF k3
<1>10. /\ IsGraph(k3) /\ DOMAIN k3.tasks = DOMAIN k2.tasks /\ k3.held = k2.held
       /\ k3.queued = g.queued /\ SameMaps(g2, k3) /\ \A w \in DOMAIN k2.tasks : Type(k3, w) = Type(k2, w)
  BY <1>7, <1>9 DEF IsEdge, SameMaps
<1>11. \A w \in DOMAIN g.tasks : Type(k2, w) = Type(g, w)
  BY <1>7 DEF Type
<1>12. k4 = Release(k3, t)
  <2>1. Type(k3, t) = "basic_blocks"
    BY <1>1, <1>8, <1>10, <1>11
  <2> QED
    BY <2>1 DEF attemptBackgroundQueueTask
<1>13. \A d \in Context : k3.joins[d] # t /\ k3.joins[d] # b
  <2>1. k3.joins = g.joins
    BY <1>4, <1>10 DEF SameRest, SameMaps
  <2>2. t # NoTask
    BY <1>1, TaskFacts
  <2>3. \A d \in Context : g.joins[d] # t /\ g.joins[d] # b
    BY <1>1, <2>2, NoneWaits
  <2> QED
    BY <2>1, <2>3
<1>14. /\ IsGraph(k4) /\ k4.tasks = k3.tasks
       /\ k4.held = [k3.held EXCEPT ![c] = @ \ {t}] /\ k4.queued = k3.queued \cup {t}
       /\ SameMaps(k3, k4)
  <2>1. t \in k3.held[t[1]] /\ t \in DOMAIN k3.tasks
    BY <1>1, <1>7, <1>8, <1>10
  <2> HIDE DEF k4
  <2>2. /\ IsGraph(Release(k3, t)) /\ Release(k3, t).tasks = k3.tasks
        /\ Release(k3, t).held = [k3.held EXCEPT ![t[1]] = @ \ {t}]
        /\ Release(k3, t).queued = k3.queued \cup {t} /\ SameMaps(k3, Release(k3, t))
    BY <1>10, <1>13, <2>1, ReleaseIs, SMTT(60) DEF SameMaps
  <2> QED
    BY <1>1, <1>12, <2>2
<1> HIDE DEF k4
<1>15. IsEdge(k4, k5, b, n)
  BY <1>3, <1>8, <1>10, <1>14, EdgeIs
<1> HIDE DEF k5
<1>16. /\ IsGraph(k5) /\ DOMAIN k5.tasks = DOMAIN k2.tasks /\ k5.held = k4.held
       /\ k5.queued = g.queued \cup {t} /\ SameMaps(g2, k5)
  BY <1>10, <1>14, <1>15 DEF IsEdge, SameMaps
<1>17. \A d \in Context : \A u : u \in k5.held[d] <=>
          /\ u # t
          /\ u \in g.held[d] \/ (d = c /\ u = n) \/ (d = c /\ u = b /\ b[1] = c)
  <2>1. k3.held \in [Context -> SUBSET DOMAIN k3.tasks]
    BY <1>10 DEF IsGraph
  <2>2. \A d \in Context : \A u : u \in k5.held[d] <=> u \in k3.held[d] /\ (d = c => u # t)
    BY <1>1, <1>14, <1>16, <2>1
  <2>3. \A d \in Context : d # c => t \notin g.held[d]
    BY <1>1 DEF Numbered
  <2> QED
    BY <1>3, <1>7, <1>10, <2>2, <2>3
<1>18. k5.tasks[n] = [type |-> "basic_blocks", pred |-> {t, b}, succ |-> {}]
  <2>1. /\ k3.tasks[n].pred = {t} /\ k3.tasks[n].succ = {} /\ Type(k3, n) = "basic_blocks"
    <3>1. k2.tasks[n].pred = {} /\ k2.tasks[n].succ = {} /\ Type(k2, n) = "basic_blocks"
      BY <1>7 DEF Type
    <3> QED
      BY <3>1, <1>3, <1>8, <1>9 DEF IsEdge
  <2>2. /\ k5.tasks[n].pred = k4.tasks[n].pred \cup {b} /\ k5.tasks[n].succ = k4.tasks[n].succ
        /\ Type(k5, n) = Type(k4, n) /\ n \in DOMAIN k5.tasks
    BY <1>3, <1>8, <1>10, <1>14, <1>15 DEF IsEdge
  <2>3. k5.tasks[n] = [type |-> Type(k5, n), pred |-> k5.tasks[n].pred, succ |-> k5.tasks[n].succ]
    BY <1>16, <2>2, TaskFacts
  <2>4. Type(k5, n) = "basic_blocks" /\ k5.tasks[n].pred = {t, b} /\ k5.tasks[n].succ = {}
    BY <1>14, <2>1, <2>2 DEF Type
  <2> QED
    BY <2>3, <2>4
<1>19. ASSUME NEW w \in DOMAIN g.tasks
       PROVE  /\ Type(k5, w) = Type(g, w) /\ k5.tasks[w].pred = g.tasks[w].pred
              /\ k5.tasks[w].succ = IF w \in {t, b} THEN g.tasks[w].succ \cup {n} ELSE g.tasks[w].succ
              /\ w \notin {t, b} => k5.tasks[w] = g.tasks[w]
  <2>1. w # n /\ w \in DOMAIN k2.tasks /\ k2.tasks[w] = g.tasks[w]
    BY <1>2, <1>7
  <2>2. /\ Type(k3, w) = Type(k2, w) /\ k3.tasks[w].pred = k2.tasks[w].pred
        /\ k3.tasks[w].succ = IF w = t THEN k2.tasks[w].succ \cup {n} ELSE k2.tasks[w].succ
        /\ w # t => k3.tasks[w] = k2.tasks[w]
    BY <1>9, <2>1 DEF IsEdge
  <2>3. /\ Type(k5, w) = Type(k4, w) /\ k5.tasks[w].pred = k4.tasks[w].pred
        /\ k5.tasks[w].succ = IF w = b THEN k4.tasks[w].succ \cup {n} ELSE k4.tasks[w].succ
        /\ w # b => k5.tasks[w] = k4.tasks[w]
    BY <1>10, <1>14, <1>15, <2>1 DEF IsEdge
  <2>4. Type(k4, w) = Type(k3, w) /\ k4.tasks[w] = k3.tasks[w]
    BY <1>14 DEF Type
  <2> QED
    BY <1>1, <1>11, <2>1, <2>2, <2>3, <2>4
<1>20. /\ IsGraph(h) /\ h.tasks = k5.tasks /\ h.queued = k5.queued \cup z /\ SameMaps(k5, h)
       /\ \A d \in Context : \A u : u \in h.held[d] <=> u \notin z /\ u \in k5.held[d]
  <2>1. CASE z = {}
    BY <1>16, <2>1 DEF SameMaps
  <2>2. CASE z # {}
    <3>1. z = {b} /\ Contexts(g.tasks[b].pred) = Contexts(g.tasks[b].succ) \cup {c}
      BY <2>2 DEF z, LastOf
    <3>2. b \in k5.held[b[1]]
      <4>1. b[1] # c => b \in g.held[b[1]]
        BY <1>1, <3>1 DEF OpenOK
      <4> QED
        BY <1>1, <1>17, <4>1
    <3>3. b \in DOMAIN k5.tasks /\ \A d \in Context : k5.joins[d] # b
      BY <1>8, <1>10, <1>13, <1>16 DEF SameMaps
    <3>4. /\ IsGraph(Release(k5, b)) /\ Release(k5, b).tasks = k5.tasks
          /\ Release(k5, b).held = [k5.held EXCEPT ![b[1]] = @ \ {b}]
          /\ Release(k5, b).queued = k5.queued \cup {b} /\ SameMaps(k5, Release(k5, b))
      BY <1>16, <3>2, <3>3, ReleaseIs DEF SameMaps
    <3>5. h = Release(k5, b)
      BY <2>2
    <3> HIDE DEF h
    <3>6. /\ IsGraph(h) /\ h.tasks = k5.tasks /\ h.queued = k5.queued \cup {b}
          /\ h.held = [k5.held EXCEPT ![b[1]] = @ \ {b}] /\ SameMaps(k5, h)
      BY <3>4, <3>5
    <3>7. \A d \in Context : b \in k5.held[d] => d = b[1]
      <4>1. \A d \in Context : b \in g.held[d] => d = b[1]
        BY <1>1 DEF Numbered
      <4> QED
        BY <1>3, <1>17, <4>1
    <3>8. k5.held \in [Context -> SUBSET DOMAIN k5.tasks]
      BY <1>16 DEF IsGraph
    <3> QED
      BY <1>1, <3>1, <3>6, <3>7, <3>8
  <2> QED
    BY <2>1, <2>2
<1> HIDE DEF h
<1>21. SameRest(g, h) /\ IsExits(g, h, b, z)
  BY <1>4, <1>16, <1>20 DEF SameRest, SameMaps, IsExits
<1>22. \A d \in Context : \A u : u \in h.held[d] <=>
          /\ u \notin z /\ u # t
          /\ u \in g.held[d] \/ (d = c /\ u = n) \/ (d = c /\ u = b /\ b[1] = c)
  BY <1>17, <1>20
<1>23. h.queued = g.queued \cup {t} \cup z
  BY <1>16, <1>20
<1>24. \A w \in DOMAIN g.tasks :
          /\ Type(h, w) = Type(g, w) /\ h.tasks[w].pred = g.tasks[w].pred
          /\ h.tasks[w].succ = IF w \in {t, b} THEN g.tasks[w].succ \cup {n} ELSE g.tasks[w].succ
          /\ w \notin {t, b} => h.tasks[w] = g.tasks[w]
  BY <1>19, <1>20 DEF Type
<1>25. IsLeft(g, h, c, t, b, n, z)
  BY <1>2, <1>7, <1>16, <1>18, <1>20, <1>21, <1>22, <1>23, <1>24 DEF IsLeft
<1> QED
  BY <1>25, ZenonT(30) DEF h, k5, k4, k3, k2, k1, n, z

Left(g, h, c, A, J) ==
    /\ Fine(h, A, J) /\ Sees(g, h, c, A) /\ ~Inside(h, c)
    /\ IF Awaiting(g, c) THEN \A d \in Context : ~Awaiting(h, d)
       ELSE \A d \in Context : Awaiting(h, d) <=> Awaiting(g, d)
    /\ <<c, 0>> \in DOMAIN h.tasks <=> <<c, 0>> \in DOMAIN g.tasks
    /\ h.creators = g.creators /\ h.joins = g.joins /\ h.exited = g.exited
    /\ Type(h, activeTask(h, c)) = "basic_blocks"

LEMMA LeftOK ==
  ASSUME NEW g, NEW c, NEW A, NEW J, NEW t, NEW b, Leaving(g, c, A, J, t, b), NEW h,
         IsLeft(g, h, c, t, b, NextOf(t, b, c), LastOf(g, b, c))
  PROVE  Left(g, h, c, A, J)
<1> DEFINE n == NextOf(t, b, c)
           z == LastOf(g, b, c)
<1>1. /\ A \in SUBSET Context /\ J \in SUBSET Context /\ c \in Context /\ c \in A /\ c \notin J
      /\ GraphOK(g, A, J) /\ IsGraph(g) /\ Numbered(g) /\ Actives(g, A) /\ Sound(g, J)
      /\ Barriers(g) /\ Settled(g, A) /\ Owners(g)
      /\ IsActive(g, c, t) /\ activeTask(g, c) = t /\ t \in DOMAIN g.tasks /\ t[1] = c
      /\ t[2] \in Nat /\ t \in g.held[c] /\ t \notin g.queued /\ Type(g, t) = "basic_blocks"
      /\ OpenOK(g, b) /\ b \in Open(g) /\ Within(g, b, c) /\ b \in DOMAIN g.tasks /\ b # t
      /\ b[1] \in Context /\ Type(g, b) = "barrier" /\ b \notin g.queued /\ b # NoTask
      /\ \A a \in Open(g) : Within(g, a, c) => a = b
      /\ (b[1] = c => b = getNext(t))
  BY LeavingFacts
<1>2. /\ n \in TaskId /\ n \notin DOMAIN g.tasks /\ n[1] = c /\ n[2] \in Nat
      /\ n[2] > t[2] /\ n = <<c, n[2]>>
      /\ \A i \in 0 .. n[2] : i = n[2] \/ <<c, i>> \in DOMAIN g.tasks
      /\ \A u \in DOMAIN g.tasks : u[1] = c => u[2] < n[2]
  BY NextFacts
<1>3. /\ z = {} \/ z = {b}
      /\ z = {b} <=> Contexts(g.tasks[b].pred) = Contexts(g.tasks[b].succ) \cup {c}
  BY DEF LastOf
<1> HIDE DEF n, z
<1>4. /\ IsGraph(h) /\ DOMAIN h.tasks = DOMAIN g.tasks \cup {n}
      /\ h.tasks[n] = [type |-> "basic_blocks", pred |-> {t, b}, succ |-> {}]
      /\ \A w \in DOMAIN g.tasks :
            /\ Type(h, w) = Type(g, w) /\ h.tasks[w].pred = g.tasks[w].pred
            /\ h.tasks[w].succ = IF w \in {t, b} THEN g.tasks[w].succ \cup {n} ELSE g.tasks[w].succ
            /\ w \notin {t, b} => h.tasks[w] = g.tasks[w]
      /\ \A d \in Context : \A u : u \in h.held[d] <=>
            /\ u \notin z /\ u # t
            /\ u \in g.held[d] \/ (d = c /\ u = n) \/ (d = c /\ u = b /\ b[1] = c)
      /\ h.queued = g.queued \cup {t} \cup z
      /\ SameRest(g, h) /\ IsExits(g, h, b, z)
  BY DEF IsLeft, n, z
<1>5. /\ h.creators = g.creators /\ h.joins = g.joins /\ h.exited = g.exited
      /\ h.owner = g.owner
      /\ h.exits \in Seq(TaskId) /\ h.entry = IF g.entry = b THEN NoTask ELSE g.entry
      /\ Once(h.exits)
      /\ \A x : Listed(h.exits, x) <=> x \notin z /\ (x = b \/ Listed(g.exits, x))
  BY <1>4 DEF SameRest, IsExits
<1>6. /\ \A x : x \in Open(g) <=> Listed(g.exits, x) \/ (x = g.entry /\ x # NoTask)
      /\ \A x : x \in Open(h) <=> Listed(h.exits, x) \/ (x = h.entry /\ x # NoTask)
  BY DEF Open, Listed
<1>7. \A x : x \in Open(h) <=> x \in Open(g) /\ x \notin z
  <2>1. g.entry # NoTask => ~Listed(g.exits, g.entry)
    BY <1>1 DEF Barriers, Listed
  <2> QED
    BY <1>1, <1>3, <1>5, <1>6, <2>1
<1>8. Type(h, n) = "basic_blocks" /\ h.tasks[n].succ = {} /\ n \notin {t, b}
  BY <1>1, <1>2, <1>4 DEF Type
<1>9. ASSUME NEW a \in Open(g), a # b
      PROVE  h.tasks[a] = g.tasks[a] /\ OpenOK(g, a) /\ OpenOK(h, a)
  <2>1. OpenOK(g, a)
    BY <1>1 DEF Barriers
  <2>2. a \in DOMAIN g.tasks /\ a # t /\ Type(g, a) = "barrier" /\ a \notin g.queued
    BY <1>1, <2>1 DEF OpenOK
  <2>3. a[1] \in Context /\ a # n
    BY <1>1, <1>2, <2>2, TaskFacts
  <2>4. h.tasks[a] = g.tasks[a] /\ Type(h, a) = Type(g, a) /\ a \in DOMAIN h.tasks
    BY <1>4, <1>9, <2>2
  <2>5. a \notin h.queued /\ (a \in h.held[a[1]] <=> a \in g.held[a[1]])
    BY <1>3, <1>4, <1>9, <2>2, <2>3
  <2> QED
    BY <2>1, <2>4, <2>5 DEF OpenOK
<1> DEFINE P == Contexts(g.tasks[b].pred)
           S == Contexts(g.tasks[b].succ)
<1>10. /\ h.tasks[b].pred = g.tasks[b].pred /\ h.tasks[b].succ = g.tasks[b].succ \cup {n}
       /\ OnePer(h.tasks[b].succ) /\ Contexts(h.tasks[b].succ) = S \cup {c}
       /\ OnePer(h.tasks[b].pred) /\ Contexts(h.tasks[b].pred) = P
       /\ c \in P /\ c \notin S /\ S \cup {c} \subseteq P /\ b[1] \in P /\ P \subseteq plan.party
       /\ b[2] # 0 /\ ((b \in g.held[b[1]]) <=> (b[1] \in S))
  <2>1. h.tasks[b].pred = g.tasks[b].pred /\ h.tasks[b].succ = g.tasks[b].succ \cup {n}
    BY <1>1, <1>4
  <2>2. /\ OnePer(g.tasks[b].pred) /\ OnePer(g.tasks[b].succ) /\ b[1] \in P
        /\ P \subseteq plan.party /\ S \subseteq P /\ b[2] # 0
        /\ ((b \in g.held[b[1]]) <=> (b[1] \in S))
    BY <1>1 DEF OpenOK
  <2>3. c \in P /\ c \notin S
    BY <1>1 DEF Within
  <2>4. OnePer(g.tasks[b].succ \cup {n}) /\ Contexts(g.tasks[b].succ \cup {n}) = S \cup {n[1]}
    BY <1>2, <2>2, <2>3, OneMore
  <2> QED
    BY <1>2, <2>1, <2>2, <2>3, <2>4
<1> HIDE DEF P, S
<1>11. \A d : \A a \in Open(h) : Within(h, a, d) <=> Within(g, a, d) /\ d # c
  <2>1. ASSUME NEW d, NEW a \in Open(h) PROVE Within(h, a, d) <=> Within(g, a, d) /\ d # c
    <3>1. CASE a = b
      BY <1>10, <3>1 DEF Within, P, S
    <3>2. CASE a # b
      BY <1>1, <1>7, <1>9, <2>1, <3>2 DEF Within
    <3> QED
      BY <3>1, <3>2
  <2> QED
    BY <2>1
<1>12. ASSUME NEW d, d # c, NEW a \in Open(g), Within(g, a, d) PROVE a \in Open(h)
  <2>1. a \in z => FALSE
    <3>1. a \in z => d \in P /\ d \notin S /\ P = S \cup {c}
      BY <1>3, <1>12 DEF Within, P, S
    <3> QED
      BY <1>12, <3>1
  <2> QED
    BY <1>7, <2>1
<1>13. z = {} => OpenOK(h, b)
  <2>1. ASSUME z = {} PROVE OpenOK(h, b)
    <3>1. S \cup {c} # P
      BY <1>3, <2>1 DEF P, S
    <3>2. b \in DOMAIN h.tasks /\ Type(h, b) = "barrier" /\ b \notin h.queued
      BY <1>1, <1>4, <2>1
    <3>3. (b \in h.held[b[1]]) <=> (b[1] \in S \cup {c})
      <4>1. b # n /\ b # t /\ b \notin z
        BY <1>1, <1>2, <2>1
      <4> QED
        BY <1>1, <1>4, <1>10, <4>1
    <3> QED
      BY <1>10, <3>1, <3>2, <3>3 DEF OpenOK
  <2> QED
    BY <2>1
<1>14. Barriers(h)
  <2>1. \A a \in Open(h) : OpenOK(h, a)
    BY <1>3, <1>7, <1>9, <1>13
  <2>2. ASSUME h.entry # NoTask
        PROVE  h.tasks[h.entry].succ = {} /\ \A i \in DOMAIN h.exits : h.exits[i] # h.entry
    <3>1. h.entry = g.entry /\ g.entry # b /\ g.entry # NoTask
      BY <1>5, <2>2
    <3>2. g.entry \in Open(g) /\ g.tasks[g.entry].succ = {} /\ ~Listed(g.exits, g.entry)
      BY <1>1, <3>1 DEF Barriers, Open, Listed
    <3>3. h.tasks[h.entry].succ = {}
      BY <1>9, <3>1, <3>2
    <3>4. ~Listed(h.exits, h.entry)
      BY <1>5, <3>1, <3>2
    <3> QED
      BY <3>3, <3>4 DEF Listed
  <2>3. ASSUME NEW i \in DOMAIN h.exits
        PROVE  Contexts(h.tasks[h.exits[i]].pred) = plan.party
    <3>1. Listed(h.exits, h.exits[i])
      BY DEF Listed
    <3>2. h.exits[i] = b \/ Listed(g.exits, h.exits[i])
      BY <1>5, <3>1
    <3>3. \A x : Listed(g.exits, x) => Contexts(g.tasks[x].pred) = plan.party /\ x \in Open(g)
      BY <1>1, <1>6 DEF Barriers, Listed
    <3>4. CASE h.exits[i] = b
      <4>1. P = plan.party
        <5>1. b = g.entry \/ Listed(g.exits, b)
          BY <1>1, <1>6
        <5> QED
          BY <3>3, <5>1 DEF P, Leaving
      <4> QED
        BY <1>10, <3>4, <4>1
    <3>5. CASE h.exits[i] # b
      BY <1>9, <3>2, <3>3, <3>5
    <3> QED
      BY <3>4, <3>5
  <2>4. \A i, j \in DOMAIN h.exits : h.exits[i] = h.exits[j] => i = j
    BY <1>5 DEF Once
  <2>5. \A d \in Context : \A a, e \in Open(h) : Within(h, a, d) /\ Within(h, e, d) => a = e
    BY <1>1, <1>7, <1>11 DEF Barriers
  <2>6. ASSUME NEW a \in DOMAIN h.tasks \ Open(h), Type(h, a) = "barrier"
        PROVE  Whole(h, a)
    <3>1. a \in DOMAIN g.tasks /\ Type(g, a) = "barrier" /\ a # t
      BY <1>1, <1>4, <1>8, <2>6
    <3>2. CASE a = b
      <4>1. z = {b}
        BY <1>1, <1>3, <1>7, <2>6, <3>2
      <4>2. P = S \cup {c}
        BY <1>3, <4>1 DEF P, S
      <4>3. P = plan.party
        <5>1. \A x : Listed(g.exits, x) => Contexts(g.tasks[x].pred) = plan.party
          BY <1>1 DEF Barriers, Listed
        <5>2. b = g.entry \/ Listed(g.exits, b)
          BY <1>1, <1>6
        <5> QED
          BY <5>1, <5>2 DEF P, Leaving
      <4> QED
        BY <1>10, <3>2, <4>2, <4>3 DEF Whole
    <3>3. CASE a # b
      <4>1. a \notin Open(g) /\ h.tasks[a] = g.tasks[a]
        BY <1>3, <1>4, <1>7, <2>6, <3>1, <3>3
      <4>2. Whole(g, a)
        BY <1>1, <3>1, <4>1 DEF Barriers
      <4> QED
        BY <4>1, <4>2 DEF Whole
    <3> QED
      BY <3>2, <3>3
  <2> QED
    BY <2>1, <2>2, <2>3, <2>4, <2>5, <2>6 DEF Barriers
<1>15. Numbered(h)
  <2>1. <<0, 0>> \in DOMAIN h.tasks
    BY <1>1, <1>4 DEF Numbered
  <2>2. ASSUME NEW d \in Context, NEW u \in h.held[d] PROVE u[1] = d /\ u \notin h.queued
    <3>1. u \notin z /\ u # t
      BY <1>4, <2>2
    <3>2. CASE u \in g.held[d]
      BY <1>1, <1>4, <3>1, <3>2 DEF Numbered
    <3>3. CASE d = c /\ u = n
      <4>1. n \notin g.queued
        BY <1>1, <1>2 DEF IsGraph
      <4> QED
        BY <1>2, <1>4, <3>1, <3>3, <4>1
    <3>4. CASE d = c /\ u = b /\ b[1] = c
      BY <1>1, <1>4, <3>1, <3>4
    <3> QED
      BY <1>4, <2>2, <3>2, <3>3, <3>4
  <2>3. ASSUME NEW w \in DOMAIN h.tasks, NEW i \in 0 .. w[2]
        PROVE  <<w[1], i>> \in DOMAIN h.tasks
    <3>1. CASE w \in DOMAIN g.tasks
      BY <1>1, <1>4, <3>1 DEF Numbered
    <3>2. CASE w \notin DOMAIN g.tasks
      <4>1. w = n /\ w[1] = c /\ w[2] = n[2] /\ n \in DOMAIN h.tasks
        BY <1>2, <1>4, <3>2
      <4>2. CASE i = n[2]
        BY <1>2, <4>1, <4>2
      <4>3. CASE i # n[2]
        BY <1>2, <1>4, <4>1, <4>3
      <4> QED
        BY <4>2, <4>3
    <3> QED
      BY <3>1, <3>2
  <2>4. ASSUME NEW d \in Context, <<d, 0>> \in DOMAIN h.tasks
        PROVE  Type(h, <<d, 0>>) = "basic_blocks"
    <3>1. CASE <<d, 0>> = n
      BY <1>8, <3>1
    <3>2. CASE <<d, 0>> # n
      <4>1. <<d, 0>> \in DOMAIN g.tasks
        BY <1>4, <2>4, <3>2
      <4> QED
        BY <1>1, <1>4, <4>1 DEF Numbered
    <3> QED
      BY <3>1, <3>2
  <2> QED
    BY <2>1, <2>2, <2>3, <2>4 DEF Numbered
<1>16. IsActive(h, c, n)
  <2>1. n \in h.held[c]
    <3>1. n \notin z /\ n # t
      BY <1>1, <1>2, <1>3
    <3> QED
      BY <1>1, <1>4, <3>1
  <2>2. \A u \in DOMAIN h.tasks : u[1] = c => u[2] <= n[2]
    <3>1. \A u \in DOMAIN g.tasks : u[2] \in Nat
      BY <1>1, TaskFacts
    <3> QED
      BY <1>2, <1>4, <3>1
  <2>3. \A a \in Open(h) : ~Within(h, a, c)
    BY <1>11
  <2> QED
    BY <2>1, <2>2, <2>3 DEF IsActive
<1>17. ASSUME NEW d \in A \ {c}, NEW u, IsActive(g, d, u) PROVE IsActive(h, d, u)
  <2>1. d \in Context /\ d # c /\ u \in g.held[d] /\ activeTask(g, d) = u /\ u \in DOMAIN g.tasks
    BY <1>1, <1>17, ActiveIs
  <2>2. Type(g, u) # "barrier" /\ u[1] = d
    BY <1>1, <2>1 DEF Settled, Numbered
  <2>3. u \in h.held[d]
    <3>1. u # b /\ u # t
      BY <1>1, <2>1, <2>2
    <3> QED
      BY <1>3, <1>4, <2>1, <3>1
  <2>4. ASSUME NEW w \in DOMAIN h.tasks, w[1] = d
        PROVE  w[2] <= u[2] \/ (w = getNext(u) /\ w \in Open(h) /\ Within(h, w, d))
    <3>1. w \in DOMAIN g.tasks
      BY <1>2, <1>4, <2>1, <2>4
    <3>2. w[2] <= u[2] \/ (w = getNext(u) /\ w \in Open(g) /\ Within(g, w, d))
      BY <1>17, <2>4, <3>1 DEF IsActive
    <3> QED
      BY <1>11, <1>12, <2>1, <3>2
  <2>5. ASSUME NEW a \in Open(h), a[1] = d, Within(h, a, d) PROVE a = getNext(u)
    <3>1. a \in Open(g) /\ Within(g, a, d)
      BY <1>7, <1>11, <2>5
    <3> QED
      BY <1>17, <2>5, <3>1 DEF IsActive
  <2> QED
    BY <2>3, <2>4, <2>5 DEF IsActive
<1>18. Actives(h, A)
  <2>1. \A d \in A : \E u \in g.held[d] : IsActive(g, d, u)
    BY <1>1 DEF Actives
  <2>2. ASSUME NEW d \in A PROVE \E u \in h.held[d] : IsActive(h, d, u)
    <3>1. CASE d = c
      BY <1>16, <3>1 DEF IsActive
    <3>2. CASE d # c
      <4>1. PICK u \in g.held[d] : IsActive(g, d, u)
        BY <2>1
      <4>2. IsActive(h, d, u)
        BY <1>17, <3>2, <4>1
      <4> QED
        BY <4>2 DEF IsActive
    <3> QED
      BY <3>1, <3>2
  <2> QED
    BY <2>2 DEF Actives
<1>19. \A w \in DOMAIN g.tasks : g.tasks[w].succ \subseteq h.tasks[w].succ
  BY <1>4, ZenonT(60)
<1>20. \A w, d : Forks(g, w, d) => Forks(h, w, d)
  BY <1>4, <1>19 DEF Forks
<1>21. Creators(h)
  <2>1. \A d \in Context : h.creators[d] # NoTask => Forks(h, h.creators[d], d)
    BY <1>1, <1>5, <1>20 DEF Sound, Creators
  <2>2. ASSUME NEW d \in Context \ {0}, <<d, 0>> \in DOMAIN h.tasks
        PROVE  \E w \in DOMAIN h.tasks : Forks(h, w, d) /\ h.tasks[<<d, 0>>].pred = {w}
    <3>1. <<d, 0>> \in DOMAIN g.tasks
      <4>1. <<d, 0>> # n
        BY <1>1, <1>2
      <4> QED
        BY <1>4, <2>2, <4>1
    <3>2. PICK w \in DOMAIN g.tasks : Forks(g, w, d) /\ g.tasks[<<d, 0>>].pred = {w}
      BY <1>1, <3>1 DEF Sound, Creators
    <3>3. Forks(h, w, d) /\ h.tasks[<<d, 0>>].pred = {w} /\ w \in DOMAIN h.tasks
      BY <1>4, <1>20, <3>1, <3>2
    <3> QED
      BY <3>3
  <2> QED
    BY <2>1, <2>2 DEF Creators
<1>22. Joins(h)
  <2>1. ASSUME NEW d \in Context, h.joins[d] # NoTask
        PROVE  /\ h.joins[d][1] = creator[d] /\ h.joins[d] \in h.held[creator[d]]
               /\ Type(h, h.joins[d]) = "join"
    <3>1. g.joins[d] # NoTask /\ g.joins[d] \in TaskId
      <4>1. g.joins \in [Context -> TaskId \cup {NoTask}]
        BY <1>1 DEF IsGraph
      <4> QED
        BY <1>5, <2>1, <4>1
    <3>2. /\ g.joins[d][1] = creator[d] /\ g.joins[d] \in g.held[creator[d]]
          /\ Type(g, g.joins[d]) = "join"
      BY <1>1, <3>1 DEF Sound, Joins
    <3>3. creator[d] \in Context
      BY <3>1, <3>2 DEF TaskId
    <3>4. g.joins[d] \in DOMAIN g.tasks
      BY <1>1, <3>2, <3>3 DEF IsGraph
    <3>5. g.joins[d] # t /\ g.joins[d] # b
      BY <1>1, <3>2
    <3>6. g.joins[d] \notin z
      BY <1>3, <3>5
    <3>7. g.joins[d] \in h.held[creator[d]]
      BY <1>4, <3>2, <3>3, <3>5, <3>6
    <3> QED
      BY <1>4, <1>5, <3>2, <3>4, <3>7
  <2> QED
    BY <2>1 DEF Joins
<1>23. Joinings(h, J)
  <2>1. ASSUME NEW d \in J
        PROVE  \E w \in DOMAIN h.tasks :
                  /\ w[1] = d /\ getNext(w) \notin DOMAIN h.tasks
                  /\ \E j \in h.tasks[w].succ :
                        j[1] = creator[d] /\ j \in DOMAIN h.tasks /\ Type(h, j) = "join"
    <3>1. PICK w \in DOMAIN g.tasks :
                  /\ w[1] = d /\ getNext(w) \notin DOMAIN g.tasks
                  /\ \E j \in g.tasks[w].succ :
                        j[1] = creator[d] /\ j \in DOMAIN g.tasks /\ Type(g, j) = "join"
      BY <1>1 DEF Sound, Joinings
    <3>2. PICK j \in g.tasks[w].succ :
                        j[1] = creator[d] /\ j \in DOMAIN g.tasks /\ Type(g, j) = "join"
      BY <3>1
    <3>3. getNext(w) \notin DOMAIN h.tasks
      <4>1. getNext(w)[1] = d /\ d # c
        BY <1>1, <3>1 DEF getNext
      <4> QED
        BY <1>2, <1>4, <3>1, <4>1
    <3>4. j \in h.tasks[w].succ /\ j \in DOMAIN h.tasks /\ Type(h, j) = "join" /\ w \in DOMAIN h.tasks
      BY <1>4, <1>19, <3>1, <3>2
    <3> QED
      BY <3>1, <3>2, <3>3, <3>4
  <2> QED
    BY <2>1 DEF Joinings
<1>24. GraphOK(h, A, J)
  BY <1>4, <1>14, <1>15, <1>18, <1>21, <1>22, <1>23 DEF GraphOK, Sound
<1>25. /\ \A d \in Context \ {c} : Inside(h, d) <=> Inside(g, d)
       /\ ~Inside(h, c)
  BY <1>7, <1>11, <1>12 DEF Inside
<1>26. activeTask(h, c) = n
  BY <1>1, <1>4, <1>14, <1>15, <1>16, ActiveIs
<1>27. ASSUME NEW d \in A \ {c}
       PROVE  /\ activeTask(h, d) = activeTask(g, d)
              /\ Type(h, activeTask(h, d)) = Type(g, activeTask(g, d))
  <2>1. PICK u \in g.held[d] : IsActive(g, d, u)
    BY <1>1 DEF Actives
  <2>2. activeTask(g, d) = u /\ u \in DOMAIN g.tasks
    BY <1>1, <2>1, ActiveIs
  <2>3. activeTask(h, d) = u
    BY <1>1, <1>4, <1>14, <1>15, <1>17, <2>1, ActiveIs
  <2> QED
    BY <1>4, <2>2, <2>3
<1>28. Settled(h, A)
  <2>1. Settled(h, {c})
    BY <1>8, <1>26 DEF Settled
  <2> QED
    BY <1>1, <1>25, <1>27, <2>1 DEF Settled
<1>29. Owners(h)
  <2>1. ASSUME NEW a \in Addr, h.owner[a] # NoTask
        PROVE  h.owner[a] \in h.held[h.owner[a][1]] /\ Type(h, h.owner[a]) = "sync"
    <3>1. g.owner[a] \in TaskId
      <4>1. g.owner \in [Addr -> TaskId \cup {NoTask}]
        BY <1>1 DEF IsGraph
      <4> QED
        BY <4>1, <1>5, <2>1
    <3>2. g.owner[a] \in g.held[g.owner[a][1]] /\ Type(g, g.owner[a]) = "sync"
      BY <1>1, <1>5, <2>1 DEF Owners
    <3>3. g.owner[a][1] \in Context
      BY <3>1 DEF TaskId
    <3>4. g.owner[a] \in DOMAIN g.tasks
      BY <1>1, <3>2, <3>3 DEF IsGraph
    <3>5. g.owner[a] # t /\ g.owner[a] # b
      BY <1>1, <3>2
    <3>6. g.owner[a] \notin z
      BY <1>3, <3>5
    <3>7. g.owner[a] \in h.held[g.owner[a][1]]
      BY <1>4, <3>2, <3>3, <3>5, <3>6
    <3> QED
      BY <1>4, <1>5, <3>2, <3>4, <3>7
  <2> QED
    BY <1>1, <1>5, <2>1 DEF Owners
<1>30. Frozen(g, h)
  <2>1. ASSUME NEW u \in g.queued PROVE u \in h.queued /\ h.tasks[u] = g.tasks[u]
    <3>1. u \in DOMAIN g.tasks /\ u \notin {t, b}
      BY <1>1 DEF IsGraph
    <3> QED
      BY <1>4, <3>1
  <2> QED
    BY <2>1 DEF Frozen
<1>31. \A d \in Context : <<d, 0>> \in DOMAIN h.tasks <=> <<d, 0>> \in DOMAIN g.tasks
  <2>1. \A d \in Context : <<d, 0>> # n
    BY <1>1, <1>2
  <2> QED
    BY <1>4, <2>1
<1>32. Sees(g, h, c, A)
  BY <1>25, <1>27, <1>30, <1>31 DEF Sees
<1>33. IF Awaiting(g, c) THEN \A d \in Context : ~Awaiting(h, d)
       ELSE \A d \in Context : Awaiting(h, d) <=> Awaiting(g, d)
  <2>1. g.entry # NoTask => g.entry \in Open(g) /\ g.tasks[g.entry].succ = {}
    BY <1>1, <1>6 DEF Barriers
  <2>2. CASE g.entry = b
    BY <1>1, <1>5, <2>2 DEF Awaiting, Within
  <2>3. CASE g.entry # b
    <3>1. ~Awaiting(g, c)
      <4>1. Awaiting(g, c) => Within(g, g.entry, c) /\ g.entry \in Open(g)
        BY <2>1 DEF Awaiting, Within, Contexts
      <4> QED
        BY <1>1, <2>3, <4>1
    <3>2. \A d \in Context : Awaiting(h, d) <=> Awaiting(g, d)
      BY <1>5, <1>9, <2>1, <2>3 DEF Awaiting
    <3> QED
      BY <3>1, <3>2
  <2> QED
    BY <2>2, <2>3
<1> QED
  BY <1>1, <1>5, <1>8, <1>24, <1>25, <1>26, <1>28, <1>29, <1>31, <1>32, <1>33 DEF Fine, Left

\* Leave, from what it finds on: its active task, the barrier, and whether c is the last.
LeaveFrom(g, c, t, b, finished) ==
    LET mine == {i \in DOMAIN g.exits : /\ c \in Contexts(g.tasks[g.exits[i]].pred)
                                        /\ c \notin Contexts(g.tasks[g.exits[i]].succ)}
        g1   == IF mine # {} THEN g
                ELSE [Check(g, c \in Contexts(g.tasks[b].pred)) EXCEPT
                         !.entry = NoTask, !.exits = Append(@, b)]
        at   == IF mine # {} THEN Min(mine) ELSE Len(g1.exits)
        g2   == IF finished THEN [g1 EXCEPT !.exits = RemoveAt(@, at)] ELSE g1
        next == IF b[1] = c THEN getNext(b) ELSE getNext(t)
        g3   == Edge(Add(IF b[1] = c THEN Hold(g2, c, b) ELSE g2, next, "basic_blocks"),
                     t, next)
        g4   == Edge(attemptBackgroundQueueTask(g3, t), b, next)
    IN  IF b = NoTask THEN Check(g, FALSE)
        ELSE IF finished THEN Release(g4, b) ELSE g4

FoundBy(g, c) ==
    LET mine == {i \in DOMAIN g.exits : /\ c \in Contexts(g.tasks[g.exits[i]].pred)
                                        /\ c \notin Contexts(g.tasks[g.exits[i]].succ)}
    IN  IF mine # {} THEN g.exits[Min(mine)] ELSE g.entry

OneIsLeft(g, b) == Cardinality(g.tasks[b].pred) = 1 + Cardinality(g.tasks[b].succ)

LEMMA LeaveIs ==
  ASSUME NEW g, NEW c
  PROVE  Leave(g, c) =
            LeaveFrom(g, c, activeTask(g, c), FoundBy(g, c), OneIsLeft(g, FoundBy(g, c)))
BY ZenonT(60) DEF Leave, LeaveFrom, FoundBy, OneIsLeft

LEMMA LeaveOK ==
  ASSUME NEW g, NEW c, NEW A, NEW J, A \subseteq Context, J \subseteq Context, c \in A, c \notin J,
         Fine(g, A, J), Inside(g, c), Awaiting(g, c) => \A d \in plan.party : Awaiting(g, d)
  PROVE  Left(g, Leave(g, c), c, A, J)
<1>1. PICK b \in Open(g) : Within(g, b, c)
  BY DEF Inside
<1>2. PICK t : IsActive(g, c, t)
  BY DEF Fine, GraphOK, Actives
<1>3. ASSUME b = g.entry PROVE Contexts(g.tasks[b].pred) = plan.party
  <2>1. OpenOK(g, b)
    BY DEF Fine, GraphOK, Sound, Barriers
  <2>2. Contexts(g.tasks[b].pred) \subseteq plan.party /\ b \in DOMAIN g.tasks /\ IsGraph(g)
    BY <2>1 DEF OpenOK, Fine, GraphOK
  <2>3. b # NoTask
    BY <2>2, TaskFacts
  <2>4. \A d : Awaiting(g, d) <=> d \in Contexts(g.tasks[b].pred)
    BY <1>3, <2>3 DEF Awaiting
  <2>5. c \in Contexts(g.tasks[b].pred)
    BY <1>1 DEF Within
  <2> QED
    BY <2>2, <2>4, <2>5
<1>4. Leaving(g, c, A, J, t, b)
  BY <1>1, <1>2, <1>3 DEF Leaving
<1>5. /\ activeTask(g, c) = t /\ b # NoTask /\ OpenOK(g, b) /\ Within(g, b, c)
  BY <1>4, LeavingFacts
<1> DEFINE mine     == {i \in DOMAIN g.exits : /\ c \in Contexts(g.tasks[g.exits[i]].pred)
                                               /\ c \notin Contexts(g.tasks[g.exits[i]].succ)}
           g1       == IF mine # {} THEN g
                       ELSE [Check(g, c \in Contexts(g.tasks[b].pred)) EXCEPT
                                !.entry = NoTask, !.exits = Append(@, b)]
           at       == IF mine # {} THEN Min(mine) ELSE Len(g1.exits)
           z        == LastOf(g, b, c)
           g2       == IF z # {} THEN [g1 EXCEPT !.exits = RemoveAt(@, at)] ELSE g1
           next     == NextOf(t, b, c)
           g3       == Edge(Add(IF b[1] = c THEN Hold(g2, c, b) ELSE g2, next, "basic_blocks"),
                            t, next)
           g4       == Edge(attemptBackgroundQueueTask(g3, t), b, next)
           h        == IF z # {} THEN Release(g4, b) ELSE g4
           finished == Cardinality(g.tasks[b].pred) = 1 + Cardinality(g.tasks[b].succ)
<1>6. b = FoundBy(g, c) /\ IsFound(g, g2, b, z)
  BY <1>4, LeaveExits, ZenonT(60) DEF FoundBy
<1> HIDE DEF mine, g1, at
<1>7. IsLeft(g, h, c, t, b, next, z)
  <2> HIDE DEF g2
  <2>1. IsFound(g, g2, b, LastOf(g, b, c))
    BY <1>6
  <2> QED
    BY <1>4, <2>1, LeaveSteps
<1>8. finished = (z # {})
  <2> DEFINE ps == g.tasks[b].pred
             ss == g.tasks[b].succ
  <2>1. /\ OnePer(ps) /\ OnePer(ss) /\ Contexts(ss) \subseteq Contexts(ps)
        /\ c \in Contexts(ps) /\ c \notin Contexts(ss)
    BY <1>5 DEF OpenOK, Within
  <2> HIDE DEF ps, ss
  <2>2. (Cardinality(ps) = 1 + Cardinality(ss)) <=> Contexts(ps) = Contexts(ss) \cup {c}
    BY <2>1, OneLeft
  <2> QED
    BY <2>2 DEF ps, ss, LastOf
<1>9. Leave(g, c) = h
  <2>1. OneIsLeft(g, b) = (z # {})
    BY <1>8 DEF OneIsLeft
  <2>2. Leave(g, c) = LeaveFrom(g, c, t, b, z # {})
    BY <1>5, <1>6, <2>1, LeaveIs
  <2>3. LeaveFrom(g, c, t, b, z # {}) = h
    BY <1>5, ZenonT(60) DEF LeaveFrom, NextOf, g1, at, mine
  <2> QED
    BY <2>2, <2>3
<1>10. IsLeft(g, h, c, t, b, NextOf(t, b, c), LastOf(g, b, c))
  BY <1>7
<1> HIDE DEF h
<1>11. Left(g, h, c, A, J)
  BY <1>4, <1>10, LeftOK
<1> QED
  BY <1>9, <1>11

-----------------------------------------------------------------------------
(***************************************************************************)
(* The runtime's steps keep the story that the trace tells.                *)
(***************************************************************************)

LEMMA PairedAppend ==
  ASSUME NEW s \in Seq(EventSet), NEW x \in EventSet, NEW inside \in BOOLEAN, NEW then \in BOOLEAN,
         \A i \in 1 .. Len(s) : Paired(s, i, inside),
         inside => s # <<>> /\ s[Len(s)].kind = "enter",
         x.kind = "leave" <=> inside, x.kind = "enter" <=> then
  PROVE  \A i \in 1 .. Len(Append(s, x)) : Paired(Append(s, x), i, then)
<1> DEFINE r == Append(s, x)
           n == Len(s)
<1>1. /\ n \in Nat /\ Len(r) = n + 1 /\ r[n + 1] = x
      /\ \A i \in 1 .. n : r[i] = s[i]
  OBVIOUS
<1>2. s # <<>> => n > 0
  OBVIOUS
<1> HIDE DEF r, n
<1>3. ASSUME NEW i \in 1 .. n PROVE Paired(r, i, then)
  <2>1. r[i] = s[i] /\ i < Len(r) /\ i + 1 \in 1 .. n + 1
    BY <1>1
  <2>2. /\ s[i].kind = "enter" => IF i < n THEN s[i + 1].kind = "leave" ELSE inside
        /\ s[i].kind = "leave" => i > 1 /\ s[i - 1].kind = "enter"
    BY DEF Paired, n
  <2>3. i < n => r[i + 1] = s[i + 1]
    BY <1>1
  <2>4. ~(i < n) => r[i + 1] = x
    <3>1. ~(i < n) => i = n
      BY <1>1
    <3> QED
      BY <1>1, <3>1
  <2>5. i > 1 => r[i - 1] = s[i - 1]
    BY <1>1
  <2> QED
    BY <2>1, <2>2, <2>3, <2>4, <2>5 DEF Paired
<1>4. Paired(r, n + 1, then)
  <2>1. ~(n + 1 < Len(r))
    BY <1>1
  <2>2. inside => n + 1 > 1 /\ r[n] = s[n] /\ s[n].kind = "enter" /\ (n + 1) - 1 = n
    BY <1>1, <1>2 DEF n
  <2> QED
    BY <1>1, <2>1, <2>2 DEF Paired
<1>5. ASSUME NEW i \in 1 .. Len(r) PROVE Paired(r, i, then)
  <2>1. i \in 1 .. n \/ i = n + 1
    BY <1>1
  <2> QED
    BY <1>3, <1>4, <2>1
<1> QED
  BY <1>5 DEF r

\* An event is stored by each of D.
LEMMA ChunksStore ==
  ASSUME ProgramTypes, Chunks, file' = file, NEW D, NEW e, Stores(D, e),
         \A c \in D : /\ life[c] \in {"off", "run", "barrier"} /\ life'[c] \in {"run", "barrier"}
                      /\ e[c].kind # "exit"
                      /\ e[c].kind = "leave" <=> life[c] = "barrier"
                      /\ e[c].kind = "enter" <=> life'[c] = "barrier",
         \A c \in Context \ D : life'[c] = life[c],
         \A c \in Context : life[c] = "exited" => creator'[c] = creator[c]
  PROVE  Chunks'
<1>1. /\ buffer \in [Context -> Seq(EventSet)] /\ D \subseteq Context
      /\ \A c \in D : e[c] \in EventSet /\ buffer'[c] = Append(buffer[c], e[c])
      /\ \A c \in Context \ D : buffer'[c] = buffer[c]
  BY DEF ProgramTypes, Stores
<1>2. ASSUME NEW c \in D
      PROVE  /\ \A i \in 1 .. Len(buffer'[c]) : Paired(buffer'[c], i, life'[c] = "barrier")
             /\ \A i \in 1 .. Len(buffer'[c]) : buffer'[c][i].kind # "exit"
             /\ LastKind(c)' = e[c].kind
  <2> DEFINE s == buffer[c]
             x == e[c]
  <2>1. c \in Context /\ s \in Seq(EventSet) /\ x \in EventSet /\ buffer'[c] = Append(s, x)
    BY <1>1
  <2>2. \A i \in 1 .. Len(s) : Paired(s, i, life[c] = "barrier") /\ s[i].kind # "exit"
    BY <2>1 DEF Chunks
  <2>3. life[c] = "barrier" => s # <<>> /\ s[Len(s)].kind = "enter"
    BY <2>1 DEF Chunks, LastKind, Last
  <2>4. /\ x.kind # "exit" /\ (x.kind = "leave" <=> life[c] = "barrier")
        /\ (x.kind = "enter" <=> life'[c] = "barrier")
    OBVIOUS
  <2> HIDE DEF s, x
  <2>5. \A i \in 1 .. Len(Append(s, x)) : Paired(Append(s, x), i, life'[c] = "barrier")
    <3>1. PICK a \in BOOLEAN : a <=> life[c] = "barrier"
      OBVIOUS
    <3>2. PICK b \in BOOLEAN : b <=> life'[c] = "barrier"
      OBVIOUS
    <3>3. \A i \in 1 .. Len(s) : Paired(s, i, a)
      BY <2>2, <3>1 DEF Paired
    <3>4. /\ a => s # <<>> /\ s[Len(s)].kind = "enter"
          /\ x.kind = "leave" <=> a
          /\ x.kind = "enter" <=> b
      BY <2>3, <2>4, <3>1, <3>2
    <3>5. \A i \in 1 .. Len(Append(s, x)) : Paired(Append(s, x), i, b)
      BY <2>1, <3>3, <3>4, PairedAppend
    <3> QED
      BY <3>2, <3>5 DEF Paired
  <2>6. \A i \in 1 .. Len(Append(s, x)) : Append(s, x)[i].kind # "exit"
    BY <2>1, <2>2, <2>4
  <2>7. Append(s, x) # <<>> /\ Last(Append(s, x)) = x
    BY <2>1 DEF Last
  <2> QED
    BY <2>1, <2>5, <2>6, <2>7 DEF LastKind, x
<1>3. ASSUME NEW c \in Context
      PROVE  /\ \A i \in 1 .. Len(buffer'[c]) :
                   Paired(buffer'[c], i, life'[c] = "barrier") /\ buffer'[c][i].kind # "exit"
             /\ life'[c] = "barrier" => LastKind(c)' = "enter"
  <2>1. CASE c \in D
    BY <1>2, <2>1
  <2>2. CASE c \notin D
    BY <1>1, <2>2 DEF Chunks, LastKind
  <2> QED
    BY <2>1, <2>2
<1>4. ASSUME NEW b \in 1 .. Len(file'), NEW i \in 1 .. Len(file'[b].events)
      PROVE  Paired(file[b].events, i, FALSE) /\ Ending(b, i)'
  <2>1. b \in 1 .. Len(file) /\ file[b].ctid \in Context /\ Len(file[b].events) \in Nat
    BY PlaceFacts
  <2>2. i \in 1 .. Len(file[b].events)
    OBVIOUS
  <2>3. Paired(file[b].events, i, FALSE) /\ Ending(b, i)
    BY <2>1, <2>2 DEF Chunks
  <2>4. PICK c \in Context : c = file[b].ctid
    BY <2>1
  <2>5. life[c] = "exited" => life'[c] = "exited" /\ creator'[c] = creator[c]
    BY <1>1
  <2>6. BuffersOf(c)' = BuffersOf(c)
    BY DEF BuffersOf
  <2> QED
    BY <2>3, <2>4, <2>5, <2>6 DEF Ending
<1> QED
  BY <1>3, <1>4 DEF Chunks, Paired

\* The buffer of c, with the exit when that is stored, is written.
LEMMA ChunksFlush ==
  ASSUME ProgramTypes, Chunks, NEW c \in Context, NEW x, NEW D, NEW e, Flushes(c, x, D, e),
         life[c] = "run", creator' = creator,
         \A d \in Context \ {c} : life'[d] = life[d],
         IF D = {} THEN life'[c] = "run" /\ LastKind(c) = "block"
         ELSE /\ life'[c] = "exited" /\ e[c].kind = "exit" /\ e[c].other = creator[c]
              /\ c = 0 \/ ReturnsAfterJoin \/ LastKind(c) # "join"
  PROVE  Chunks'
<1>a. PICK s \in Seq(EventSet) : s = buffer[c]
  BY DEF ProgramTypes
<1>b. PICK n \in Nat : n = Len(file) + 1
  BY PlaceFacts
<1>1. /\ s \in Seq(EventSet) /\ x \in Seq(EventSet) /\ Len(s) \in Nat
      /\ \/ D = {} /\ x = s /\ s # <<>>
         \/ D = {c} /\ e[c] \in EventSet /\ x = Append(s, e[c])
      /\ buffer'[c] = <<>> /\ \A d \in Context \ {c} : buffer'[d] = buffer[d]
  BY <1>a DEF ProgramTypes, Flushes
<1>2. /\ Len(file) \in Nat /\ Len(file') = n /\ n \in Nat
      /\ \A b \in 1 .. Len(file) : file'[b] = file[b]
      /\ file'[n].ctid = c /\ file'[n].events = x
      /\ \A b \in 1 .. Len(file') : b \in 1 .. Len(file) \/ b = n
  <2> DEFINE r == [ctid |-> c, events |-> x]
             B == [ctid : Context, events : Seq(EventSet)]
  <2>1. file \in Seq(B) /\ r \in B /\ file' = Append(file, r)
    BY <1>1 DEF Flushes, ProgramTypes
  <2>2. r.ctid = c /\ r.events = x
    OBVIOUS
  <2> HIDE DEF r, B
  <2>3. /\ Len(file) \in Nat /\ Len(file') = n /\ n \in Nat
        /\ \A b \in 1 .. Len(file) : file'[b] = file[b]
        /\ file'[n] = r
    BY <1>b, <2>1
  <2>4. \A b \in 1 .. Len(file') : b \in 1 .. Len(file) \/ b = n
    BY <1>b, <2>3
  <2> QED
    BY <2>2, <2>3, <2>4
<1>3. /\ \A i \in 1 .. Len(s) : Paired(s, i, FALSE) /\ s[i].kind # "exit"
  <2>1. \A i \in 1 .. Len(s) : Paired(s, i, life[c] = "barrier") /\ s[i].kind # "exit"
    BY <1>a DEF Chunks
  <2> QED
    BY <2>1 DEF Paired
<1>4. s # <<>> => LastKind(c) = s[Len(s)].kind
  BY <1>a DEF LastKind, Last
<1>5. \A d \in Context \ {c} : BuffersOf(d)' = BuffersOf(d)
  <2>1. \A d, b : b \in BuffersOf(d)' <=> b \in 1 .. Len(file') /\ file'[b].ctid = d
    BY DEF BuffersOf
  <2>2. \A d, b : b \in BuffersOf(d) <=> b \in 1 .. Len(file) /\ file[b].ctid = d
    BY DEF BuffersOf
  <2>3. \A b \in 1 .. Len(file) : b \in 1 .. Len(file')
    BY <1>b, <1>2
  <2>4. ASSUME NEW d \in Context \ {c}, NEW b PROVE b \in BuffersOf(d)' <=> b \in BuffersOf(d)
    <3>1. CASE b \in 1 .. Len(file)
      <4>1. file'[b] = file[b] /\ b \in 1 .. Len(file')
        BY <1>2, <2>3, <3>1
      <4> QED
        BY <2>1, <2>2, <3>1, <4>1
    <3>2. CASE b \notin 1 .. Len(file)
      BY <1>2, <2>1, <2>2, <3>2
    <3> QED
      BY <3>1, <3>2
  <2>5. \A d \in Context \ {c} : \A b : b \in BuffersOf(d)' <=> b \in BuffersOf(d)
    BY <2>4
  <2>6. ASSUME NEW d \in Context \ {c} PROVE BuffersOf(d)' = BuffersOf(d)
    <3>1. \A b : b \in BuffersOf(d)' <=> b \in BuffersOf(d)
      BY <2>5
    <3> QED
      BY <3>1 DEF BuffersOf
  <2> QED
    BY <2>6
<1>6. \A d \in BuffersOf(c)' : d <= n
  BY <1>2 DEF BuffersOf
<1>7. \A i \in 1 .. Len(x) : Paired(x, i, FALSE)
  <2>1. CASE D = {}
    BY <1>1, <1>3, <2>1
  <2>2. CASE D # {}
    <3>1. e[c] \in EventSet /\ x = Append(s, e[c]) /\ e[c].kind = "exit"
      BY <1>1, <2>2
    <3>2. \A i \in 1 .. Len(Append(s, e[c])) : Paired(Append(s, e[c]), i, FALSE)
      BY <1>1, <1>3, <3>1, PairedAppend
    <3> QED
      BY <3>1, <3>2
  <2> QED
    BY <2>1, <2>2
<1>8. ASSUME NEW i \in 1 .. Len(x) PROVE Ending(n, i)'
  <2>1. CASE D = {}
    <3>1. x = s /\ s[i].kind # "exit" /\ (i = Len(s) => s[i].kind = "block") /\ i \in 1 .. Len(s)
      BY <1>1, <1>3, <1>4, <1>8, <2>1
    <3> QED
      BY <1>2, <3>1 DEF Ending
  <2>2. CASE D # {}
    <3>1. e[c] \in EventSet /\ x = Append(s, e[c]) /\ e[c].kind = "exit"
      BY <1>1, <2>2
    <3>2. CASE i \in 1 .. Len(s)
      <4>1. x[i] = s[i] /\ i # Len(x)
        BY <1>1, <3>1, <3>2
      <4>2. s[i].kind # "exit"
        BY <1>3, <3>2
      <4> QED
        BY <1>2, <4>1, <4>2 DEF Ending
    <3>3. CASE i \notin 1 .. Len(s)
      <4>1. i = Len(x) /\ i = Len(s) + 1 /\ x[i] = e[c]
        BY <1>1, <1>8, <3>1, <3>3
      <4>2. i > 1 => s # <<>> /\ i - 1 = Len(s) /\ x[i - 1] = s[Len(s)]
        BY <1>1, <3>1, <4>1
      <4>3. c # 0 /\ i > 1 /\ ~ReturnsAfterJoin => x[i - 1].kind # "join"
        BY <1>4, <2>2, <4>2
      <4>4. life'[c] = "exited" /\ e[c].other = creator'[c]
        BY <2>2
      <4> QED
        BY <1>2, <1>6, <3>1, <4>1, <4>3, <4>4 DEF Ending
    <3> QED
      BY <3>2, <3>3
  <2> QED
    BY <2>1, <2>2
<1>9. ASSUME NEW b \in 1 .. Len(file), NEW i \in 1 .. Len(file[b].events)
      PROVE  Paired(file[b].events, i, FALSE) /\ Ending(b, i)'
  <2>1. file[b].ctid \in Context /\ file'[b] = file[b]
    BY <1>2, PlaceFacts
  <2>2. Paired(file[b].events, i, FALSE) /\ Ending(b, i)
    BY DEF Chunks
  <2>3. PICK d \in Context : d = file[b].ctid
    BY <2>1
  <2>4. file[b].events[i].kind = "exit" => life[d] = "exited"
    BY <2>2, <2>3 DEF Ending
  <2>5. file[b].events[i].kind = "exit" => d # c /\ life'[d] = life[d] /\ BuffersOf(d)' = BuffersOf(d)
    BY <1>5, <2>3, <2>4
  <2> QED
    BY <2>1, <2>2, <2>3, <2>4, <2>5 DEF Ending
<1>10. ASSUME NEW b \in 1 .. Len(file'), NEW i \in 1 .. Len(file'[b].events)
       PROVE  Paired(file'[b].events, i, FALSE) /\ Ending(b, i)'
  <2>1. CASE b \in 1 .. Len(file)
    BY <1>2, <1>9, <2>1
  <2>2. CASE b = n
    BY <1>2, <1>7, <1>8, <2>2
  <2> QED
    BY <1>2, <2>1, <2>2
<1>11. ASSUME NEW d \in Context
       PROVE  /\ \A i \in 1 .. Len(buffer'[d]) :
                    Paired(buffer'[d], i, life'[d] = "barrier") /\ buffer'[d][i].kind # "exit"
              /\ life'[d] = "barrier" => LastKind(d)' = "enter"
  <2>1. CASE d = c
    BY <1>1, <2>1
  <2>2. CASE d # c
    BY <1>1, <2>2, SMTT(60) DEF Chunks, LastKind
  <2> QED
    BY <2>1, <2>2
<1> QED
  BY <1>10, <1>11 DEF Chunks, Paired

\* What the events say of other threads is true of them.
Related(D, e) ==
    /\ \A c \in D : e[c].kind \in {"create", "join"} =>
          LET d == e[c].other
          IN  creator'[d] = c /\ d # c /\ d # 0 /\ life'[d] # "off"
    /\ \A c \in D : e[c].kind = "join" => e[c].other \in children[c] \ children'[c]
    /\ \A c, d \in D : e[c].kind = "join" /\ e[d].kind = "join" => c = d

LEMMA RelativesKeep ==
  ASSUME ProgramTypes, Relatives, NEW D \in SUBSET Context, NEW e, NEW m, NEW fresh,
         Moves(m, fresh, D, e), Related(D, e),
         children' \in [Context -> SUBSET Context],
         \A c \in Context : life[c] # "off" => life'[c] # "off" /\ creator'[c] = creator[c],
         \A c \in Context : \A d \in children'[c] :
            d \in children[c] \/ (creator'[d] = c /\ d # c /\ d # 0 /\ life'[d] # "off" /\ life[d] = "off")
  PROVE  Relatives'
<1>1. /\ \A s \in Spot : m[s] \in Spot' /\ At(m[s])' = At(s) /\ Owner(m[s])' = Owner(s)
      /\ \A c \in D : fresh[c] \in Spot' /\ At(fresh[c])' = e[c] /\ Owner(fresh[c])' = c
      /\ \A s \in Spot' : (\E c \in D : s = fresh[c]) \/ \E t \in Spot : s = m[t]
  BY DEF Moves
<1>2. \A s \in Spot : At(s) \in EventSet /\ Owner(s) \in Context
  BY SpotFacts DEF SpotShape
<1>3. \A x \in EventSet : x.kind \in {"create", "join"} => x.other \in Context
  BY DEF EventSet
<1>4. ASSUME NEW c \in Context, NEW d \in children'[c]
      PROVE  creator'[d] = c /\ d # c /\ d # 0 /\ life'[d] # "off"
  <2>1. CASE d \in children[c]
    <3>1. creator[d] = c /\ d # c /\ d # 0 /\ life[d] # "off" /\ d \in Context
      BY <2>1 DEF Relatives
    <3> QED
      BY <3>1
  <2>2. CASE d \notin children[c]
    BY <2>2
  <2> QED
    BY <2>1, <2>2
<1>5. ASSUME NEW s \in Spot, At(s).kind \in {"create", "join"}
      PROVE  /\ creator[At(s).other] = Owner(s) /\ At(s).other # Owner(s) /\ At(s).other # 0
             /\ life[At(s).other] # "off" /\ At(s).other \in Context
             /\ creator'[At(s).other] = Owner(s) /\ life'[At(s).other] # "off"
             /\ At(s).kind = "join" =>
                   At(s).other \notin children[Owner(s)] /\ At(s).other \notin children'[Owner(s)]
  <2>1. At(s).other \in Context
    BY <1>2, <1>3, <1>5
  <2>2. /\ creator[At(s).other] = Owner(s) /\ At(s).other # Owner(s) /\ At(s).other # 0
        /\ life[At(s).other] # "off"
    BY <1>5 DEF Relatives
  <2>3. At(s).kind = "join" => At(s).other \notin children[Owner(s)]
    BY DEF Relatives
  <2>4. Owner(s) \in Context
    BY <1>2
  <2>5. \A d \in children'[Owner(s)] : d \in children[Owner(s)] \/ life[d] = "off"
    BY <2>4
  <2> QED
    BY <2>1, <2>2, <2>3, <2>5
<1>6. ASSUME NEW s \in Spot', At(s)'.kind \in {"create", "join"}
      PROVE  /\ creator'[At(s)'.other] = Owner(s)' /\ At(s)'.other # Owner(s)'
             /\ At(s)'.other # 0 /\ life'[At(s)'.other] # "off"
             /\ At(s)'.kind = "join" => At(s)'.other \notin children'[Owner(s)']
  <2>1. CASE \E c \in D : s = fresh[c]
    <3>1. PICK c \in D : s = fresh[c]
      BY <2>1
    <3>2. At(s)' = e[c] /\ Owner(s)' = c
      BY <1>1, <3>1
    <3> QED
      BY <1>6, <3>2 DEF Related
  <2>2. CASE \E t \in Spot : s = m[t]
    <3>1. PICK t \in Spot : s = m[t]
      BY <2>2
    <3>2. At(s)' = At(t) /\ Owner(s)' = Owner(t)
      BY <1>1, <3>1
    <3> QED
      BY <1>5, <1>6, <3>2
  <2> QED
    BY <1>1, <2>1, <2>2
<1>7. ASSUME NEW s \in Spot', NEW t \in Spot', At(s)'.kind = "join", At(t)'.kind = "join",
             At(s)'.other = At(t)'.other
      PROVE  s = t
  <2>1. ASSUME NEW c \in D, NEW u \in Spot, e[c].kind = "join", At(u).kind = "join"
        PROVE  e[c].other # At(u).other
    <3>1. At(u).other \notin children[Owner(u)] /\ creator'[At(u).other] = Owner(u)
      BY <1>5, <2>1
    <3>2. e[c].other \in children[c] /\ creator'[e[c].other] = c
      BY <2>1 DEF Related
    <3> QED
      BY <3>1, <3>2
  <2>2. CASE (\E c \in D : s = fresh[c]) /\ (\E c \in D : t = fresh[c])
    <3>1. PICK c \in D : s = fresh[c]
      BY <2>2
    <3>2. PICK d \in D : t = fresh[d]
      BY <2>2
    <3>3. e[c].kind = "join" /\ e[d].kind = "join"
      BY <1>1, <1>7, <3>1, <3>2
    <3> QED
      BY <3>1, <3>2, <3>3 DEF Related
  <2>3. CASE (\E u \in Spot : s = m[u]) /\ (\E u \in Spot : t = m[u])
    <3>1. PICK u \in Spot : s = m[u]
      BY <2>3
    <3>2. PICK v \in Spot : t = m[v]
      BY <2>3
    <3>3. At(u).kind = "join" /\ At(v).kind = "join" /\ At(u).other = At(v).other
      BY <1>1, <1>7, <3>1, <3>2
    <3>4. u = v
      BY <3>3 DEF Relatives
    <3> QED
      BY <3>1, <3>2, <3>4
  <2>4. CASE (\E c \in D : s = fresh[c]) /\ (\E u \in Spot : t = m[u])
    <3>1. PICK c \in D : s = fresh[c]
      BY <2>4
    <3>2. PICK u \in Spot : t = m[u]
      BY <2>4
    <3> QED
      BY <1>1, <1>7, <2>1, <3>1, <3>2
  <2>5. CASE (\E u \in Spot : s = m[u]) /\ (\E c \in D : t = fresh[c])
    <3>1. PICK c \in D : t = fresh[c]
      BY <2>5
    <3>2. PICK u \in Spot : s = m[u]
      BY <2>5
    <3> QED
      BY <1>1, <1>7, <2>1, <3>1, <3>2
  <2> QED
    BY <1>1, <2>2, <2>3, <2>4, <2>5
<1> QED
  BY <1>4, <1>6, <1>7 DEF Relatives

LEMMA EnterNumsMove ==
  ASSUME ProgramTypes, NEW D \in SUBSET Context, NEW e, NEW m, NEW fresh,
         Moves(m, fresh, D, e), NEW d
  PROVE  EnterNums(d)' = EnterNums(d) \cup IF d \in D /\ e[d].kind = "enter" THEN {e[d].num} ELSE {}
<1>1. /\ \A s \in Spot : m[s] \in Spot' /\ At(m[s])' = At(s) /\ Owner(m[s])' = Owner(s)
      /\ \A c \in D : fresh[c] \in Spot' /\ At(fresh[c])' = e[c] /\ Owner(fresh[c])' = c
      /\ \A s \in Spot' : (\E c \in D : s = fresh[c]) \/ \E t \in Spot : s = m[t]
  BY DEF Moves
<1>2. \A k : k \in EnterNums(d)' <=>
                \E s \in Spot' : Owner(s)' = d /\ At(s)'.kind = "enter" /\ At(s)'.num = k
  BY DEF EnterNums
<1>3. \A k : k \in EnterNums(d) <=>
                \E s \in Spot : Owner(s) = d /\ At(s).kind = "enter" /\ At(s).num = k
  BY DEF EnterNums
<1>4. ASSUME NEW k \in EnterNums(d)'
      PROVE  k \in EnterNums(d) \/ (d \in D /\ e[d].kind = "enter" /\ e[d].num = k)
  <2>1. PICK s \in Spot' : Owner(s)' = d /\ At(s)'.kind = "enter" /\ At(s)'.num = k
    BY <1>2
  <2>2. CASE \E c \in D : s = fresh[c]
    BY <1>1, <2>1, <2>2
  <2>3. CASE \E t \in Spot : s = m[t]
    <3>1. PICK t \in Spot : s = m[t]
      BY <2>3
    <3>2. Owner(t) = d /\ At(t).kind = "enter" /\ At(t).num = k
      BY <1>1, <2>1, <3>1
    <3> QED
      BY <1>3, <3>2
  <2> QED
    BY <1>1, <2>2, <2>3
<1>5. ASSUME NEW k \in EnterNums(d) PROVE k \in EnterNums(d)'
  <2>1. PICK s \in Spot : Owner(s) = d /\ At(s).kind = "enter" /\ At(s).num = k
    BY <1>3
  <2>2. m[s] \in Spot' /\ Owner(m[s])' = d /\ At(m[s])'.kind = "enter" /\ At(m[s])'.num = k
    BY <1>1, <2>1
  <2> QED
    BY <1>2, <2>2
<1>6. ASSUME d \in D, e[d].kind = "enter" PROVE e[d].num \in EnterNums(d)'
  <2>1. /\ fresh[d] \in Spot' /\ Owner(fresh[d])' = d /\ At(fresh[d])'.kind = "enter"
        /\ At(fresh[d])'.num = e[d].num
    BY <1>1, <1>6
  <2> QED
    BY <1>2, <2>1
<1> QED
  BY <1>4, <1>5, <1>6

LEMMA NumsDrawn ==
  ASSUME ProgramTypes, Recorded, NEW d
  PROVE  /\ \A k \in EnterNums(d) : k \in Nat /\ k < order.barrier
         /\ order.barrier \in Nat
<1>1. \A s \in Spot : At(s) \in EventSet
  BY SpotFacts DEF SpotShape
<1>2. \A x \in EventSet : x.kind = "enter" => x.num \in Nat
  BY DEF EventSet
<1>3. \A s \in Spot : At(s).kind = "enter" => At(s).num \in Nat /\ At(s).num < order.barrier
  BY <1>1, <1>2 DEF Recorded, AllDrawn, Drawn
<1>4. \A k \in EnterNums(d) : \E s \in Spot : At(s).kind = "enter" /\ At(s).num = k
  BY DEF EnterNums
<1>5. order.barrier \in Nat
  BY DEF ProgramTypes
<1> QED
  BY <1>3, <1>4, <1>5

\* Who enters takes the next number, and who leaves does so when all have come.
Meets(D, e) ==
    /\ \A c \in D : e[c].kind \in {"enter", "leave"} => e[c].num = order.barrier
    /\ \A c \in D : e[c].kind = "enter" => c \in plan.party
    /\ \A c \in D : e[c].kind = "leave" => D = {c} /\ \A d \in plan.party : arrived[d] >= arrived[c]
    /\ arrived' \in [Context -> Nat]
    /\ \A d \in Context :
          arrived'[d] = IF d \in D /\ e[d].kind = "enter" THEN arrived[d] + 1 ELSE arrived[d]

LEMMA MeetsKeep ==
  ASSUME ProgramTypes, Recorded, Arrivals, Met, NEW D \in SUBSET Context, NEW e, NEW m, NEW fresh,
         Moves(m, fresh, D, e), Meets(D, e), plan' = plan
  PROVE  Arrivals' /\ Met'
<1>1. \A d : EnterNums(d)' =
                EnterNums(d) \cup IF d \in D /\ e[d].kind = "enter" THEN {e[d].num} ELSE {}
  BY EnterNumsMove
<1>2. /\ \A d : \A k \in EnterNums(d) : k \in Nat /\ k < order.barrier
      /\ order.barrier \in Nat
  BY NumsDrawn
<1>3. ASSUME NEW d \in Context
      PROVE  /\ IsFiniteSet(EnterNums(d)') /\ arrived'[d] = Cardinality(EnterNums(d)')
             /\ EnterNums(d)' # {} => d \in plan'.party
  <2>1. /\ IsFiniteSet(EnterNums(d)) /\ arrived[d] = Cardinality(EnterNums(d))
        /\ EnterNums(d) # {} => d \in plan.party
    BY DEF Arrivals
  <2>2. CASE d \in D /\ e[d].kind = "enter"
    <3>1. EnterNums(d)' = EnterNums(d) \cup {order.barrier} /\ order.barrier \notin EnterNums(d)
      BY <1>1, <1>2, <2>2 DEF Meets
    <3>2. /\ IsFiniteSet(EnterNums(d) \cup {order.barrier})
          /\ Cardinality(EnterNums(d) \cup {order.barrier}) = Cardinality(EnterNums(d)) + 1
      BY <2>1, <3>1, FS_AddElement
    <3>3. arrived'[d] = arrived[d] + 1 /\ d \in plan.party
      BY <2>2 DEF Meets
    <3> QED
      BY <2>1, <3>1, <3>2, <3>3
  <2>3. CASE ~(d \in D /\ e[d].kind = "enter")
    <3>1. EnterNums(d)' = EnterNums(d)
      BY <1>1, <2>3
    <3>2. arrived'[d] = arrived[d]
      BY <2>3 DEF Meets
    <3> QED
      BY <2>1, <3>1, <3>2
  <2> QED
    BY <2>2, <2>3
<1>4. Arrivals'
  BY <1>3 DEF Arrivals, Meets
<1>5. ASSUME NEW d, NEW k \in Nat, k <= order.barrier
      PROVE  {j \in EnterNums(d)' : j < k} = Below(d, k)
  <2>1. \A j \in EnterNums(d)' : j \in EnterNums(d) \/ j = order.barrier
    BY <1>1 DEF Meets
  <2>2. \A j \in EnterNums(d) : j \in EnterNums(d)'
    BY <1>1
  <2>3. ~(order.barrier < k)
    BY <1>2, <1>5
  <2> QED
    BY <2>1, <2>2, <2>3 DEF Below
<1>6. \A s \in Spot : At(s) \in EventSet /\ Owner(s) \in Context
  BY SpotFacts DEF SpotShape
<1>7. \A x \in EventSet : x.kind = "leave" => x.num \in Nat
  BY DEF EventSet
<1>8. plan.party \subseteq Context
  BY EventQueueAssumption DEF ProgramTypes
<1>9. ASSUME NEW s \in Spot', At(s)'.kind = "leave", NEW d \in plan.party
      PROVE  Cardinality({j \in EnterNums(d)' : j < At(s)'.num})
               >= Cardinality({j \in EnterNums(Owner(s))' : j < At(s)'.num})
  <2>1. CASE \E t \in Spot : s = m[t]
    <3>1. PICK t \in Spot : s = m[t]
      BY <2>1
    <3>2. At(s)' = At(t) /\ Owner(s)' = Owner(t)
      BY <3>1 DEF Moves
    <3>3. At(t).kind = "leave" /\ At(t).num \in Nat /\ At(t).num < order.barrier
      BY <1>6, <1>7, <1>9, <3>2 DEF Recorded, AllDrawn, Drawn
    <3>4. PICK k \in Nat : k = At(t).num /\ k <= order.barrier
      BY <1>2, <3>3
    <3>5. PICK c : c = Owner(t)
      OBVIOUS
    <3>6. Cardinality(Below(d, k)) >= Cardinality(Below(c, k))
      BY <3>3, <3>4, <3>5 DEF Met
    <3>7. {j \in EnterNums(d)' : j < k} = Below(d, k) /\ {j \in EnterNums(c)' : j < k} = Below(c, k)
      BY <1>5, <3>4
    <3> QED
      BY <3>2, <3>4, <3>5, <3>6, <3>7
  <2>2. CASE \E c \in D : s = fresh[c]
    <3>1. PICK c \in D : s = fresh[c]
      BY <2>2
    <3>2. At(s)' = e[c] /\ Owner(s)' = c
      BY <3>1 DEF Moves
    <3>3. e[c].num = order.barrier /\ arrived[d] >= arrived[c]
      BY <1>9, <3>2 DEF Meets
    <3>4. \A f : {j \in EnterNums(f)' : j < order.barrier} = Below(f, order.barrier)
      BY <1>2, <1>5
    <3>5. \A f : Below(f, order.barrier) = EnterNums(f)
      BY <1>2 DEF Below
    <3>6. arrived[d] = Cardinality(EnterNums(d)) /\ arrived[c] = Cardinality(EnterNums(c))
      BY <1>8 DEF Arrivals
    <3> QED
      BY <3>2, <3>3, <3>4, <3>5, <3>6
  <2> QED
    BY <2>1, <2>2 DEF Moves
<1> QED
  BY <1>4, <1>9 DEF Met, Below

\* What the steps that store events do besides.
Tells(D, e) ==
    /\ plan' = plan
    /\ \A c \in D : /\ life[c] \in {"off", "run", "barrier"} /\ life'[c] \in {"run", "barrier"}
                    /\ e[c].kind # "exit"
                    /\ e[c].kind = "leave" <=> life[c] = "barrier"
                    /\ e[c].kind = "enter" <=> life'[c] = "barrier"
    /\ \A c \in Context \ D : life'[c] = life[c]
    /\ \A c \in Context : life[c] # "off" => creator'[c] = creator[c]
    /\ children' \in [Context -> SUBSET Context]
    /\ \A c \in Context : \A d \in children'[c] :
          d \in children[c] \/ (creator'[d] = c /\ d # c /\ d # 0 /\ life'[d] # "off" /\ life[d] = "off")
    /\ Related(D, e) /\ Meets(D, e)

LEMMA StoresTell ==
  ASSUME ProgramTypes, ProgramTypes', Recorded, Story, file' = file, NEW D, NEW e,
         Stores(D, e), Tells(D, e)
  PROVE  Story'
<1>1. D \in SUBSET Context
  BY DEF Stores
<1>2. PICK m, fresh : Moves(m, fresh, D, e)
  BY StoresMove
<1>3. Chunks'
  BY ChunksStore DEF Story, Tells
<1>4. \A c \in Context : life[c] # "off" => life'[c] # "off" /\ creator'[c] = creator[c]
  BY DEF Tells
<1>5. Relatives'
  BY <1>1, <1>2, <1>4, RelativesKeep DEF Story, Tells
<1>6. Arrivals' /\ Met'
  BY <1>1, <1>2, MeetsKeep DEF Story, Tells
<1> QED
  BY <1>3, <1>5, <1>6 DEF Story

\* One thread stores an event.
LEMMA StoreTells ==
  ASSUME ProgramTypes, ProgramTypes', Recorded, Story, file' = file, plan' = plan,
         creator' = creator, NEW c \in Context, NEW x \in EventSet, Store(c, x),
         life[c] \in {"run", "barrier"}, life'[c] \in {"run", "barrier"},
         \A d \in Context \ {c} : life'[d] = life[d],
         x.kind \notin {"exit", "create"},
         x.kind = "leave" <=> life[c] = "barrier", x.kind = "enter" <=> life'[c] = "barrier",
         x.kind \in {"enter", "leave"} => x.num = order.barrier,
         x.kind = "enter" => c \in plan.party,
         x.kind = "leave" => \A d \in plan.party : arrived[d] >= arrived[c],
         arrived' = IF x.kind = "enter" THEN [arrived EXCEPT ![c] = @ + 1] ELSE arrived,
         IF x.kind = "join"
         THEN x.other \in children[c] /\ children' = [children EXCEPT ![c] = @ \ {x.other}]
         ELSE children' = children
  PROVE  Story'
<1>1. PICK D : D = {c}
  OBVIOUS
<1>2. PICK e \in [D -> EventSet] : e = [d \in D |-> x]
  OBVIOUS
<1>3. c \in D /\ e[c] = x /\ \A d \in D : d = c
  BY <1>1, <1>2
<1>4. buffer \in [Context -> Seq(EventSet)]
  BY DEF ProgramTypes
<1>5. Stores(D, e)
  <2>1. buffer' = [buffer EXCEPT ![c] = Append(@, x)]
    BY DEF Store
  <2>2. buffer' = [d \in Context |-> IF d \in D THEN Append(buffer[d], e[d]) ELSE buffer[d]]
    BY <1>3, <1>4, <2>1
  <2> QED
    BY <1>1, <2>2 DEF Stores
<1>6. arrived \in [Context -> Nat] /\ children \in [Context -> SUBSET Context]
  BY DEF Story, Arrivals, Relatives
<1>7. Meets(D, e)
  <2>1. arrived' \in [Context -> Nat]
    BY <1>6
  <2>2. \A d \in Context :
          arrived'[d] = IF d \in D /\ e[d].kind = "enter" THEN arrived[d] + 1 ELSE arrived[d]
    BY <1>3, <1>6
  <2> QED
    BY <1>1, <1>3, <2>1, <2>2 DEF Meets
<1>8. children' \in [Context -> SUBSET Context] /\ \A d \in Context : children'[d] \subseteq children[d]
  BY <1>6
<1>9. Related(D, e)
  <2>1. ASSUME x.kind = "join"
        PROVE  /\ creator'[x.other] = c /\ x.other # c /\ x.other # 0 /\ life'[x.other] # "off"
               /\ x.other \in children[c] \ children'[c]
    <3>1. /\ creator[x.other] = c /\ x.other # c /\ x.other # 0 /\ life[x.other] # "off"
          /\ x.other \in Context
      BY <1>6, <2>1 DEF Story, Relatives
    <3>2. x.other \notin children'[c]
      BY <1>6, <2>1
    <3> QED
      BY <2>1, <3>1, <3>2
  <2> QED
    BY <1>3, <2>1 DEF Related
<1>10. Tells(D, e)
  BY <1>3, <1>7, <1>8, <1>9 DEF Tells
<1> QED
  BY <1>5, <1>10, StoresTell

\* A thread's buffer is written.
LEMMA FlushTells ==
  ASSUME ProgramTypes, ProgramTypes', Recorded, Story, plan' = plan, creator' = creator,
         children' = children, arrived' = arrived,
         NEW c \in Context, NEW x, NEW D, NEW e, Flushes(c, x, D, e),
         life[c] = "run", \A d \in Context \ {c} : life'[d] = life[d],
         IF D = {} THEN life'[c] = "run" /\ LastKind(c) = "block"
         ELSE /\ life'[c] = "exited" /\ e[c].kind = "exit" /\ e[c].other = creator[c]
              /\ c = 0 \/ ReturnsAfterJoin \/ LastKind(c) # "join"
  PROVE  Story'
<1>1. D \in SUBSET Context /\ \A d \in D : d = c /\ D = {c}
  BY DEF Flushes
<1>2. PICK m, fresh : Moves(m, fresh, D, e)
  BY FlushMoves
<1>3. Chunks'
  BY ChunksFlush DEF Story
<1>4. \A d \in D : e[d].kind = "exit"
  BY <1>1
<1>5. children \in [Context -> SUBSET Context] /\ arrived \in [Context -> Nat]
  BY DEF Story, Relatives, Arrivals
<1>6. Relatives'
  <2>1. Related(D, e)
    BY <1>4 DEF Related
  <2>2. \A d \in Context : life[d] # "off" => life'[d] # "off" /\ creator'[d] = creator[d]
    BY <1>1
  <2> QED
    BY <1>1, <1>2, <1>5, <2>1, <2>2, RelativesKeep DEF Story
<1>7. Arrivals' /\ Met'
  <2>1. Meets(D, e)
    BY <1>4, <1>5 DEF Meets
  <2> QED
    BY <1>1, <1>2, <2>1, MeetsKeep DEF Story
<1> QED
  BY <1>3, <1>6, <1>7 DEF Story

LEMMA StoryProgram ==
  ASSUME ProgramTypes, Recorded, Story, Program
  PROVE  Story'
<1>0. /\ plan' = plan /\ plan.threads \subseteq Context
      /\ plan.addrs \subseteq Addr
      /\ order.sync \in Nat /\ order.barrier \in Nat
      /\ creator \in [Context -> Context]
      /\ life \in [Context -> {"off", "run", "barrier", "exited"}]
      /\ buffer \in [Context -> Seq(EventSet)]
  BY EventQueueAssumption DEF ProgramTypes, Program
<1>a. ProgramTypes'
  BY ProgramKeeps
<1>b. children \in [Context -> SUBSET Context] /\ arrived \in [Context -> Nat]
  BY DEF Story, Relatives, Arrivals
<1>1. ASSUME NEW c \in plan.threads, NEW long \in BOOLEAN, BasicBlock(c, long) PROVE Story'
  <2>1. PICK x \in EventSet : x = [kind |-> "block", long |-> long]
    BY DEF EventSet
  <2>2. /\ c \in Context /\ life[c] = "run" /\ Store(c, x) /\ x.kind = "block"
        /\ creator' = creator /\ file' = file /\ life' = life /\ arrived' = arrived
        /\ children' = children
    BY <1>0, <1>1, <2>1 DEF BasicBlock
  <2> QED
    BY <1>0, <1>a, <2>2, StoreTells
<1>2. ASSUME NEW c \in plan.threads, NEW a \in plan.addrs, NEW w \in BOOLEAN, StoreSync(c, a, w)
      PROVE  Story'
  <2>1. PICK x \in EventSet : x = [kind |-> "sync", addr |-> a, wait |-> w, num |-> order.sync]
    BY <1>0 DEF EventSet
  <2>2. /\ c \in Context /\ life[c] = "run" /\ Store(c, x) /\ x.kind = "sync"
        /\ creator' = creator /\ file' = file /\ life' = life /\ arrived' = arrived
        /\ children' = children
    BY <1>0, <1>2, <2>1 DEF StoreSync
  <2> QED
    BY <1>0, <1>a, <2>2, StoreTells
<1>3. ASSUME NEW c \in plan.threads, StoreBarrierEnter(c) PROVE Story'
  <2>1. PICK x \in EventSet : x = [kind |-> "enter", num |-> order.barrier]
    BY <1>0 DEF EventSet
  <2>2. /\ c \in Context /\ life[c] = "run" /\ Store(c, x) /\ x.kind = "enter"
        /\ x.num = order.barrier /\ c \in plan.party
        /\ creator' = creator /\ file' = file /\ life' = [life EXCEPT ![c] = "barrier"]
        /\ arrived' = [arrived EXCEPT ![c] = @ + 1] /\ children' = children
    BY <1>0, <1>3, <2>1 DEF StoreBarrierEnter
  <2>3. life'[c] = "barrier" /\ \A d \in Context \ {c} : life'[d] = life[d]
    BY <1>0, <2>2
  <2> QED
    BY <1>0, <1>a, <2>2, <2>3, StoreTells
<1>4. ASSUME NEW c \in plan.threads, StoreBarrierLeave(c) PROVE Story'
  <2>1. PICK x \in EventSet : x = [kind |-> "leave", num |-> order.barrier]
    BY <1>0 DEF EventSet
  <2>2. /\ c \in Context /\ life[c] = "barrier" /\ Store(c, x) /\ x.kind = "leave"
        /\ x.num = order.barrier /\ \A d \in plan.party : arrived[d] >= arrived[c]
        /\ creator' = creator /\ file' = file /\ life' = [life EXCEPT ![c] = "run"]
        /\ arrived' = arrived /\ children' = children
    BY <1>0, <1>4, <2>1 DEF StoreBarrierLeave
  <2>3. life'[c] = "run" /\ \A d \in Context \ {c} : life'[d] = life[d]
    BY <1>0, <2>2
  <2> QED
    BY <1>0, <1>a, <2>2, <2>3, StoreTells
<1>5. ASSUME NEW c \in plan.threads, NEW d \in plan.threads, ThreadJoin(c, d) PROVE Story'
  <2>1. PICK x \in EventSet : x = [kind |-> "join", other |-> d]
    BY <1>0 DEF EventSet
  <2>2. /\ c \in Context /\ life[c] = "run" /\ Store(c, x) /\ x.kind = "join" /\ x.other = d
        /\ creator' = creator /\ file' = file /\ life' = life /\ arrived' = arrived
        /\ d \in children[c] /\ children' = [children EXCEPT ![c] = @ \ {d}]
    BY <1>0, <1>5, <2>1 DEF ThreadJoin
  <2> QED
    BY <1>0, <1>a, <2>2, StoreTells
<1>6. ASSUME NEW c \in plan.threads, QueueBuffer(c) PROVE Story'
  <2>1. c \in Context /\ life[c] = "run" /\ buffer[c] # <<>> /\ LastKind(c) = "block"
    BY <1>0, <1>6 DEF QueueBuffer, LastKind
  <2>2. PICK x \in Seq(EventSet) : x = buffer[c]
    BY <1>0, <2>1
  <2>3. /\ buffer' = [buffer EXCEPT ![c] = <<>>] /\ file' = Append(file, [ctid |-> c, events |-> x])
        /\ life' = life /\ creator' = creator /\ children' = children /\ arrived' = arrived
    BY <1>6, <2>2 DEF QueueBuffer
  <2>4. Flushes(c, x, {}, <<>>)
    BY <2>1, <2>2, <2>3 DEF Flushes
  <2>5. PICK D, e : D = {} /\ Flushes(c, x, D, e)
    BY <2>4
  <2> QED
    BY <1>0, <1>a, <2>1, <2>3, <2>5, FlushTells
<1>7. ASSUME NEW c \in plan.threads, CleanupThread(c) PROVE Story'
  <2>1. c \in Context /\ life[c] = "run" /\ (c = 0 \/ ReturnsAfterJoin \/ LastKind(c) # "join")
    BY <1>0, <1>7 DEF CleanupThread
  <2>2. PICK k \in EventSet : k = [kind |-> "exit", other |-> creator[c]]
    BY <1>0, <2>1 DEF EventSet
  <2>3. PICK x \in Seq(EventSet) : x = Append(buffer[c], k)
    <3>1. buffer[c] \in Seq(EventSet)
      BY <1>0, <2>1
    <3>2. Append(buffer[c], k) \in Seq(EventSet)
      BY <3>1
    <3> QED
      BY <3>2
  <2>4. /\ buffer' = [buffer EXCEPT ![c] = <<>>] /\ file' = Append(file, [ctid |-> c, events |-> x])
        /\ life' = [life EXCEPT ![c] = "exited"] /\ creator' = creator
        /\ children' = children /\ arrived' = arrived
    BY <1>7, <2>2, <2>3 DEF CleanupThread
  <2>5. life'[c] = "exited" /\ \A d \in Context \ {c} : life'[d] = life[d]
    BY <1>0, <2>1, <2>4
  <2>6. PICK D : D = {c}
    OBVIOUS
  <2>7. PICK e \in [D -> EventSet] : e = [d \in D |-> k]
    OBVIOUS
  <2>8. e[c] = k /\ k.kind = "exit" /\ k.other = creator[c] /\ D # {}
    BY <2>2, <2>6, <2>7
  <2>9. Flushes(c, x, D, e)
    BY <2>1, <2>3, <2>4, <2>6, <2>7, <2>8 DEF Flushes
  <2> QED
    BY <1>0, <1>a, <2>1, <2>4, <2>5, <2>8, <2>9, FlushTells
<1>8. ASSUME NEW p \in plan.threads, NEW c \in plan.threads, life[c] = "off", ThreadCreate(p, c)
      PROVE  Story'
  <2>1. /\ p \in Context /\ c \in Context /\ life[p] = "run" /\ p # c /\ c # 0
        /\ buffer[c] = <<>>
    BY <1>0, <1>8 DEF ThreadCreate, Recorded, Lives
  <2>2. PICK x \in EventSet : x = [kind |-> "create", other |-> c]
    BY <2>1 DEF EventSet
  <2>3. PICK y \in EventSet : y = [kind |-> "start", other |-> p]
    BY <2>1 DEF EventSet
  <2>4. PICK D \in SUBSET Context : D = {p, c}
    BY <2>1
  <2>5. PICK e \in [D -> EventSet] : e = [d \in D |-> IF d = p THEN x ELSE y]
    OBVIOUS
  <2>6. e[p] = x /\ e[c] = y /\ \A d \in D : d = p \/ d = c
    BY <2>1, <2>4, <2>5
  <2>7. buffer' = [d \in Context |-> IF d \in D THEN Append(buffer[d], e[d]) ELSE buffer[d]]
    <3>1. buffer' = [buffer EXCEPT ![p] = Append(@, x), ![c] = <<y>>]
      BY <1>8, <2>2, <2>3 DEF ThreadCreate
    <3>2. Append(buffer[c], y) = <<y>>
      BY <2>1
    <3> QED
      BY <1>0, <2>1, <2>4, <2>6, <3>1, <3>2
  <2>8. /\ file' = file /\ arrived' = arrived /\ life' = [life EXCEPT ![c] = "run"]
        /\ creator' = [creator EXCEPT ![c] = p] /\ children' = [children EXCEPT ![p] = @ \cup {c}]
    BY <1>8 DEF ThreadCreate
  <2>9. Stores(D, e)
    BY <2>4, <2>5, <2>7 DEF Stores
  <2>10. /\ life'[c] = "run" /\ life'[p] = "run" /\ \A d \in Context \ {c} : life'[d] = life[d]
         /\ creator'[c] = p /\ \A d \in Context \ {c} : creator'[d] = creator[d]
    BY <1>0, <2>1, <2>8
  <2>11. Meets(D, e)
    BY <1>b, <2>2, <2>3, <2>6, <2>8 DEF Meets
  <2>12. Related(D, e)
    BY <2>1, <2>2, <2>3, <2>6, <2>10 DEF Related
  <2>13. /\ children' \in [Context -> SUBSET Context]
         /\ \A f \in Context : \A d \in children'[f] : d \in children[f] \/ (f = p /\ d = c)
    BY <1>b, <2>1, <2>8
  <2>14. Tells(D, e)
    <3>1. \A d \in D : /\ life[d] \in {"off", "run", "barrier"} /\ life'[d] \in {"run", "barrier"}
                       /\ e[d].kind # "exit"
                       /\ e[d].kind = "leave" <=> life[d] = "barrier"
                       /\ e[d].kind = "enter" <=> life'[d] = "barrier"
      BY <1>8, <2>1, <2>2, <2>3, <2>6, <2>10
    <3>2. \A f \in Context : \A d \in children'[f] :
            d \in children[f] \/ (creator'[d] = f /\ d # f /\ d # 0 /\ life'[d] # "off" /\ life[d] = "off")
      BY <1>8, <2>1, <2>10, <2>13
    <3>3. /\ \A d \in Context \ D : life'[d] = life[d]
          /\ \A d \in Context : life[d] # "off" => creator'[d] = creator[d]
      BY <1>8, <2>4, <2>10
    <3> QED
      BY <1>0, <2>11, <2>12, <2>13, <3>1, <3>2, <3>3 DEF Tells
  <2> QED
    BY <1>a, <2>8, <2>9, <2>14, StoresTell
<1>9. PICK c \in plan.threads :
          \/ StoreBarrierEnter(c) \/ StoreBarrierLeave(c)
          \/ QueueBuffer(c) \/ CleanupThread(c)
          \/ \E long \in BOOLEAN : BasicBlock(c, long)
          \/ \E a \in plan.addrs, kind \in plan.does \cap {"sync", "wait"} :
                StoreSync(c, a, kind = "wait")
          \/ \E d \in plan.threads : (life[d] = "off" /\ ThreadCreate(c, d)) \/ ThreadJoin(c, d)
  BY DEF Program
<1>10. \A kind : (kind = "wait") \in BOOLEAN
  OBVIOUS
<1>11. CASE \E a \in plan.addrs, kind \in plan.does \cap {"sync", "wait"} :
               StoreSync(c, a, kind = "wait")
  <2>1. PICK a \in plan.addrs, kind \in plan.does \cap {"sync", "wait"} :
            StoreSync(c, a, kind = "wait")
    BY <1>11
  <2> QED
    BY <1>2, <1>10, <2>1
<1> QED
  BY <1>1, <1>3, <1>4, <1>5, <1>6, <1>7, <1>8, <1>9, <1>11

\* The middle layer does not change the story.
LEMMA SameStory ==
  ASSUME UNCHANGED program, Story
  PROVE  Story'
<1> USE DEF program
<1>1. /\ Spot' = Spot /\ \A s : At(s)' = At(s) /\ Owner(s)' = Owner(s)
      /\ \A c : BuffersOf(c)' = BuffersOf(c)
  BY DEF Spot, FileSpot, BufferSpot, At, Owner, BuffersOf
<1>2. Chunks'
  <2>1. \A c : LastKind(c)' = LastKind(c)
    BY DEF LastKind
  <2>2. \A b, i : Ending(b, i)' <=> Ending(b, i)
    BY <1>1 DEF Ending
  <2> QED
    BY <2>1, <2>2 DEF Story, Chunks, Paired
<1>3. Relatives'
  BY <1>1 DEF Story, Relatives
<1>4. \A d : EnterNums(d)' = EnterNums(d)
  BY <1>1 DEF EnterNums
<1>5. Arrivals'
  BY <1>4 DEF Story, Arrivals
<1>6. Met'
  <2>1. \A d, k : Below(d, k)' = Below(d, k)
    BY <1>4 DEF Below
  <2> QED
    BY <1>1, <2>1 DEF Story, Met
<1> QED
  BY <1>2, <1>3, <1>5, <1>6 DEF Story

LEMMA StoryInit == MiddleInit => Story
<1> SUFFICES ASSUME MiddleInit PROVE Story
  OBVIOUS
<1>1. /\ file = <<>> /\ buffer = [c \in Context |-> <<>>]
      /\ life = [c \in Context |-> IF c = 0 THEN "run" ELSE "off"]
      /\ children = [c \in Context |-> {}] /\ arrived = [c \in Context |-> 0]
  BY DEF MiddleInit, Init
<1>2. Len(file) = 0 /\ \A c \in Context : Len(buffer[c]) = 0
  BY <1>1
<1>3. Spot = {}
  BY <1>2 DEF Spot, FileSpot, BufferSpot
<1>4. Chunks
  BY <1>1, <1>2 DEF Chunks
<1>5. \A d : EnterNums(d) = {}
  BY <1>3 DEF EnterNums
<1> QED
  BY <1>1, <1>3, <1>4, <1>5, FS_EmptySet DEF Story, Relatives, Arrivals, Met

-----------------------------------------------------------------------------
(***************************************************************************)
(* What the story means for the places in the trace.                       *)
(***************************************************************************)

\* The place of an event that is no header is a spot, and the places next to it.
LEMMA NextPlaces ==
  ASSUME ProgramTypes, NEW p \in Place
  PROVE  /\ p = <<p[1], p[2]>> /\ p[1] \in 1 .. Len(file) /\ p[2] \in 0 .. Len(file[p[1]].events)
         /\ Len(file[p[1]].events) \in Nat /\ p[1] \in BuffersOf(Ctid(p)) /\ Ctid(p) \in Context
         /\ \A i \in 0 .. Len(file[p[1]].events) :
               /\ <<p[1], i>> \in PlacesOf(Ctid(p)) /\ <<p[1], i>> \in Place
               /\ Ctid(<<p[1], i>>) = Ctid(p)
               /\ i # 0 => EventAt(<<p[1], i>>).kind = file[p[1]].events[i].kind
<1>1. /\ p = <<p[1], p[2]>> /\ p \in PlacesOf(Ctid(p)) /\ Ctid(p) \in Context
  BY PlaceFacts
<1>2. /\ p[1] \in 1 .. Len(file) /\ file[p[1]].ctid = Ctid(p)
      /\ p[2] \in 0 .. Len(file[p[1]].events) /\ Len(file[p[1]].events) \in Nat
  BY <1>1, PlaceFacts
<1>3. ASSUME NEW i \in 0 .. Len(file[p[1]].events)
      PROVE  /\ <<p[1], i>> \in PlacesOf(Ctid(p)) /\ <<p[1], i>> \in Place
             /\ Ctid(<<p[1], i>>) = Ctid(p)
             /\ i # 0 => EventAt(<<p[1], i>>).kind = file[p[1]].events[i].kind
  <2>1. <<p[1], i>> \in PlacesOf(Ctid(p))
    BY <1>2, <1>3, PlaceFacts
  <2>2. <<p[1], i>> \in Place
    BY <1>1, <2>1, PlaceFacts
  <2>3. Ctid(<<p[1], i>>) = Ctid(p)
    BY <2>1, PlaceFacts
  <2>4. i # 0 => EventAt(<<p[1], i>>).kind = At(<<"file", p[1], i>>).kind
    BY <2>2, EventFacts
  <2> QED
    BY <2>1, <2>2, <2>3, <2>4 DEF At
<1> QED
  BY <1>1, <1>2, <1>3 DEF BuffersOf

\* Before comes what is in an earlier buffer or earlier in the same one.
LEMMA NthOrder ==
  ASSUME ProgramTypes, NEW c, NEW p \in PlacesOf(c), NEW q \in PlacesOf(c)
  PROVE  /\ Nth(p) < Nth(q) <=> p[1] < q[1] \/ (p[1] = q[1] /\ p[2] < q[2])
         /\ p[1] \in Nat /\ q[1] \in Nat /\ p[2] \in Nat /\ q[2] \in Nat
         /\ Nth(p) \in Nat /\ Nth(q) \in Nat
<1>1. /\ p = <<p[1], p[2]>> /\ p[1] \in Nat /\ p[2] \in Nat
      /\ q = <<q[1], q[2]>> /\ q[1] \in Nat /\ q[2] \in Nat
  BY PlaceFacts
<1>2. Nth(p) \in Nat /\ Nth(q) \in Nat
  BY NthFacts
<1>3. p[1] < q[1] \/ (p[1] = q[1] /\ p[2] < q[2]) => Nth(p) < Nth(q)
  BY NthGrows
<1>4. q[1] < p[1] \/ (q[1] = p[1] /\ q[2] < p[2]) => Nth(q) < Nth(p)
  BY NthGrows
<1>5. p = q => ~(Nth(p) < Nth(q))
  BY <1>2
<1>6. p = q <=> p[1] = q[1] /\ p[2] = q[2]
  BY <1>1
<1> QED
  BY <1>1, <1>2, <1>3, <1>4, <1>5, <1>6

\* An enter is followed by a leave, a leave comes after an enter, and an exit comes last
\* and not after a join.
Scripted(p) ==
    LET k == EventAt(p).kind
        c == Ctid(p)
    IN  /\ k = "enter" => /\ <<p[1], p[2] + 1>> \in PlacesOf(c)
                          /\ EventAt(<<p[1], p[2] + 1>>).kind = "leave"
        /\ k = "leave" => /\ p[2] > 1 /\ <<p[1], p[2] - 1>> \in PlacesOf(c)
                          /\ EventAt(<<p[1], p[2] - 1>>).kind = "enter"
        /\ k = "exit" => /\ \A q \in PlacesOf(c) : Nth(q) <= Nth(p)
                         /\ EventAt(p).other = creator[c]
                         /\ c # 0 /\ p[2] > 1 /\ ~ReturnsAfterJoin =>
                               /\ <<p[1], p[2] - 1>> \in PlacesOf(c)
                               /\ EventAt(<<p[1], p[2] - 1>>).kind # "join"
        /\ /\ Len(file[p[1]].events) # 0
           /\ <<p[1], Len(file[p[1]].events)>> \in PlacesOf(c)
           /\ EventAt(<<p[1], Len(file[p[1]].events)>>).kind \in {"exit", "block"}

LEMMA ScriptFacts ==
  ASSUME ProgramTypes, Recorded, Chunks, NEW p \in Place
  PROVE  Scripted(p)
<1> DEFINE b == p[1]
           i == p[2]
           s == file[p[1]].events
           c == Ctid(p)
<1>1. /\ p = <<b, i>> /\ b \in 1 .. Len(file) /\ i \in 0 .. Len(s) /\ Len(s) \in Nat
      /\ b \in BuffersOf(c) /\ c \in Context /\ p \in PlacesOf(c) /\ file[b].ctid = c
  BY NextPlaces, PlaceFacts DEF Ctid
<1>2. \A j \in 0 .. Len(s) :
         /\ <<b, j>> \in PlacesOf(c) /\ <<b, j>> \in Place
         /\ j # 0 => EventAt(<<b, j>>).kind = s[j].kind
  BY NextPlaces
<1>3. EventAt(p).kind # "buffer" => i # 0 /\ EventAt(p).kind = s[i].kind
  BY <1>1, <1>2, EventFacts
<1>4. \A j \in 1 .. Len(s) : Paired(s, j, FALSE) /\ Ending(b, j)
  BY <1>1 DEF Chunks
<1>5. EventAt(p).kind = "exit" => EventAt(p).other = s[i].other
  <2>1. EventAt(p).kind = "exit" => EventAt(p).other = At(<<"file", b, i>>).other
    BY <1>3, EventFacts
  <2> QED
    BY <2>1 DEF At
<1>6. s # <<>> /\ s \in Seq(EventSet)
  BY <1>1, PlaceFacts DEF Recorded, Lives
<1> HIDE DEF b, i, s, c
<1>7. EventAt(p).kind = "enter" =>
        <<b, i + 1>> \in PlacesOf(c) /\ EventAt(<<b, i + 1>>).kind = "leave"
  <2> SUFFICES ASSUME EventAt(p).kind = "enter"
               PROVE  <<b, i + 1>> \in PlacesOf(c) /\ EventAt(<<b, i + 1>>).kind = "leave"
    OBVIOUS
  <2>1. i \in 1 .. Len(s) /\ s[i].kind = "enter"
    BY <1>1, <1>3
  <2>2. i < Len(s) /\ s[i + 1].kind = "leave"
    BY <1>4, <2>1 DEF Paired
  <2>3. i + 1 \in 0 .. Len(s) /\ i + 1 # 0
    BY <1>1, <2>1, <2>2
  <2> QED
    BY <1>2, <2>2, <2>3
<1>8. EventAt(p).kind = "leave" =>
        /\ i > 1 /\ <<b, i - 1>> \in PlacesOf(c) /\ EventAt(<<b, i - 1>>).kind = "enter"
  <2> SUFFICES ASSUME EventAt(p).kind = "leave"
               PROVE  i > 1 /\ <<b, i - 1>> \in PlacesOf(c) /\ EventAt(<<b, i - 1>>).kind = "enter"
    OBVIOUS
  <2>1. i \in 1 .. Len(s) /\ s[i].kind = "leave"
    BY <1>1, <1>3
  <2>2. i > 1 /\ s[i - 1].kind = "enter"
    BY <1>4, <2>1 DEF Paired
  <2>3. i - 1 \in 0 .. Len(s) /\ i - 1 # 0
    BY <1>1, <2>1, <2>2
  <2> QED
    BY <1>2, <2>2, <2>3
<1>9. EventAt(p).kind = "exit" =>
        /\ \A q \in PlacesOf(c) : Nth(q) <= Nth(p)
        /\ EventAt(p).other = creator[c]
        /\ c # 0 /\ i > 1 /\ ~ReturnsAfterJoin =>
              <<b, i - 1>> \in PlacesOf(c) /\ EventAt(<<b, i - 1>>).kind # "join"
  <2> SUFFICES ASSUME EventAt(p).kind = "exit"
               PROVE  /\ \A q \in PlacesOf(c) : Nth(q) <= Nth(p)
                      /\ EventAt(p).other = creator[c]
                      /\ c # 0 /\ i > 1 /\ ~ReturnsAfterJoin =>
                            <<b, i - 1>> \in PlacesOf(c) /\ EventAt(<<b, i - 1>>).kind # "join"
    OBVIOUS
  <2>1. i \in 1 .. Len(s) /\ s[i].kind = "exit"
    BY <1>1, <1>3
  <2>2. Ending(b, i)
    BY <1>4, <2>1
  <2>3. /\ i = Len(s) /\ s[i].other = creator[c] /\ \A d \in BuffersOf(c) : d <= b
        /\ c # 0 /\ i > 1 /\ ~ReturnsAfterJoin => s[i - 1].kind # "join"
    <3>1. file[b].events = s
      BY DEF b, s
    <3> QED
      BY <1>1, <2>1, <2>2, <3>1 DEF Ending
  <2>4. ASSUME NEW q \in PlacesOf(c)
        PROVE  Nth(q) <= Nth(p)
    <3>1. q \in Place /\ Ctid(q) = c
      BY PlaceFacts
    <3>2. q[1] \in BuffersOf(c) /\ q[2] \in 0 .. Len(file[q[1]].events) /\ Len(file[q[1]].events) \in Nat
      BY <3>1, NextPlaces
    <3>3. q[1] <= b /\ (q[1] = b => q[2] <= i)
      BY <2>3, <3>2 DEF s, b
    <3>4. p[1] = b /\ p[2] = i
      BY DEF b, i
    <3>5. /\ Nth(p) < Nth(q) <=> p[1] < q[1] \/ (p[1] = q[1] /\ p[2] < q[2])
          /\ p[1] \in Nat /\ q[1] \in Nat /\ p[2] \in Nat /\ q[2] \in Nat
          /\ Nth(p) \in Nat /\ Nth(q) \in Nat
      BY <1>1, NthOrder
    <3> QED
      BY <3>3, <3>4, <3>5
  <2>5. i > 1 => i - 1 \in 0 .. Len(s) /\ i - 1 # 0
    BY <1>1, <2>1
  <2> QED
    BY <1>2, <1>5, <2>3, <2>4, <2>5
<1>10. /\ Len(s) # 0 /\ <<b, Len(s)>> \in PlacesOf(c)
       /\ EventAt(<<b, Len(s)>>).kind \in {"exit", "block"}
  <2>1. Len(s) # 0
    BY <1>6
  <2>2. Len(s) \in 0 .. Len(s) /\ Len(s) \in 1 .. Len(s)
    BY <1>1, <2>1
  <2>3. s[Len(s)].kind \in {"exit", "block"}
    <3>1. Ending(b, Len(s))
      BY <1>4, <2>2
    <3>2. file[b].events = s
      BY DEF b, s
    <3> QED
      BY <3>1, <3>2 DEF Ending
  <2> QED
    BY <1>2, <2>1, <2>2, <2>3
<1> QED
  BY <1>7, <1>8, <1>9, <1>10 DEF Scripted, b, i, s, c

\* What else is known of a place from the event there.
LEMMA SyncPlace ==
  ASSUME ProgramTypes, NEW p \in Place, EventAt(p).kind = "sync"
  PROVE  EventAt(p).addr \in Addr /\ EventAt(p).wait \in BOOLEAN
<1> DEFINE e == file[p[1]].events[p[2]]
           c == Ctid(p)
<1>1. p[2] # 0
  BY EventFacts
<1>2. e \in EventSet /\ e.kind = "sync"
  <2>1. p[2] \in 1 .. Len(file[p[1]].events) /\ file[p[1]].events \in Seq(EventSet)
    BY <1>1, NextPlaces, PlaceFacts
  <2>2. EventAt(p).kind = At(<<"file", p[1], p[2]>>).kind
    BY <1>1, EventFacts
  <2> QED
    BY <2>1, <2>2 DEF At
<1>3. EventAt(p) = [f \in DOMAIN e \cup {"ctid"} |-> IF f = "ctid" THEN c ELSE e[f]]
  BY <1>1 DEF EventAt, Ctid
<1> HIDE DEF e, c
<1>4. e \in [kind : {"sync"}, addr : Addr, wait : BOOLEAN, num : Nat]
  BY <1>2 DEF EventSet
<1>5. DOMAIN e = {"kind", "addr", "wait", "num"} /\ e["addr"] \in Addr /\ e["wait"] \in BOOLEAN
  BY <1>4
<1> QED
  BY <1>3, <1>5

LEMMA OtherPlace ==
  ASSUME ProgramTypes, Relatives, NEW p \in Place, EventAt(p).kind \in {"create", "join"}
  PROVE  /\ EventAt(p).other \in Context /\ creator[EventAt(p).other] = Ctid(p)
         /\ EventAt(p).other # Ctid(p) /\ EventAt(p).other # 0
<1> DEFINE s == <<"file", p[1], p[2]>>
<1>1. p[2] # 0 /\ EventAt(p).other \in Context
  BY EventFacts
<1>2. /\ s \in Spot /\ Owner(s) = Ctid(p) /\ At(s).kind = EventAt(p).kind
      /\ At(s).other = EventAt(p).other
  BY <1>1, EventFacts
<1> HIDE DEF s
<1> QED
  BY <1>1, <1>2 DEF Relatives

LEMMA OneJoin ==
  ASSUME ProgramTypes, Relatives, NEW p \in Place, NEW q \in Place,
         EventAt(p).kind = "join", EventAt(q).kind = "join", EventAt(p).other = EventAt(q).other
  PROVE  p = q
<1> DEFINE s == <<"file", p[1], p[2]>>
           t == <<"file", q[1], q[2]>>
<1>1. p[2] # 0 /\ q[2] # 0
  BY EventFacts
<1>2. s \in Spot /\ At(s).kind = "join" /\ At(s).other = EventAt(p).other
  BY <1>1, EventFacts
<1>3. t \in Spot /\ At(t).kind = "join" /\ At(t).other = EventAt(q).other
  BY <1>1, EventFacts
<1> HIDE DEF s, t
<1>4. s = t
  BY <1>2, <1>3 DEF Relatives
<1>5. p = <<p[1], p[2]>> /\ q = <<q[1], q[2]>>
  BY NextPlaces
<1> QED
  BY <1>4, <1>5 DEF s, t

\* A thread starts once.
LEMMA OneStart ==
  ASSUME ProgramTypes, Recorded, NEW p \in Place, NEW q \in Place,
         EventAt(p).kind = "start", EventAt(q).kind = "start", Ctid(p) = Ctid(q)
  PROVE  p = q /\ Ctid(p) # 0
<1> DEFINE s == <<"file", p[1], p[2]>>
           t == <<"file", q[1], q[2]>>
<1>1. p[2] # 0 /\ q[2] # 0
  BY EventFacts
<1>2. s \in Spot /\ At(s).kind = "start" /\ Owner(s) = Ctid(p)
  BY <1>1, EventFacts
<1>3. t \in Spot /\ At(t).kind = "start" /\ Owner(t) = Ctid(p)
  BY <1>1, EventFacts
<1>4. s[1] = "file" /\ s[2] = p[1] /\ s[3] = p[2] /\ t[1] = "file" /\ t[2] = q[1] /\ t[3] = q[2]
  OBVIOUS
<1> HIDE DEF s, t
<1>5. IsFirst(s) /\ IsFirst(t) /\ Owner(s) # 0
  BY <1>2, <1>3 DEF Recorded, Starts
<1>6. p[2] = 1 /\ q[2] = 1 /\ \A b \in BuffersOf(Ctid(p)) : p[1] <= b /\ q[1] <= b
  BY <1>2, <1>3, <1>4, <1>5 DEF IsFirst
<1>7. /\ p = <<p[1], p[2]>> /\ q = <<q[1], q[2]>> /\ p[1] \in Nat /\ q[1] \in Nat
      /\ p[1] \in BuffersOf(Ctid(p)) /\ q[1] \in BuffersOf(Ctid(p))
  BY NextPlaces
<1> QED
  BY <1>2, <1>5, <1>6, <1>7

-----------------------------------------------------------------------------
(***************************************************************************)
(* The middle layer deals with the event at p.                             *)
(***************************************************************************)
Handling(p) ==
    /\ ProgramTypes /\ ListTypes /\ Recorded /\ Story /\ CreatedFirst /\ GlobalOrder
    /\ \A c \in Context : buffer[c] = <<>>
    /\ pc = "main" /\ p \in Place /\ event = EventAt(p) /\ Nth(p) = got[Ctid(p)]

LEMMA HandlingFacts ==
  ASSUME NEW p, Handling(p)
  PROVE  /\ ProgramTypes /\ Recorded /\ Chunks /\ Relatives /\ Arrivals /\ Met /\ Scripted(p)
         /\ p \in Place /\ Ctid(p) \in Context /\ p \in PlacesOf(Ctid(p)) /\ Nth(p) \in Nat
         /\ event.ctid = Ctid(p) /\ event.kind = EventAt(p).kind
         /\ \A q \in PlacesOf(Ctid(p)) :
               Nth(q) \in Nat /\ (Done(q) <=> Nth(q) < Nth(p)) /\ (~Done(q) <=> Nth(p) <= Nth(q))
         /\ ~Done(p)
<1>1. /\ ProgramTypes /\ Recorded /\ Chunks /\ Relatives /\ Arrivals /\ Met
      /\ p \in Place /\ event = EventAt(p) /\ pc = "main" /\ Nth(p) = got[Ctid(p)]
  BY DEF Handling, Story
<1>2. Scripted(p)
  BY <1>1, ScriptFacts
<1>3. Ctid(p) \in Context /\ p \in PlacesOf(Ctid(p)) /\ event.ctid = Ctid(p)
  BY <1>1, PlaceFacts, EventFacts
<1>4. Nth(p) \in Nat
  BY <1>1, <1>3, NthFacts
<1>5. Dealt(Ctid(p)) = Nth(p) - 1
  BY <1>1, <1>3 DEF Dealt
<1>6. ASSUME NEW q \in PlacesOf(Ctid(p))
      PROVE  Nth(q) \in Nat /\ (Done(q) <=> Nth(q) < Nth(p)) /\ (~Done(q) <=> Nth(p) <= Nth(q))
  <2>1. Nth(q) \in Nat /\ Ctid(q) = Ctid(p)
    BY <1>1, NthFacts, PlaceFacts
  <2> QED
    BY <1>4, <1>5, <2>1 DEF Done
<1>7. ~Done(p)
  BY <1>3, <1>4, <1>6
<1> QED
  BY <1>1, <1>2, <1>3, <1>4, <1>6, <1>7

\* A thread is in a barrier when its next event is a leave.
LEMMA NextIsLeave ==
  ASSUME NEW p, Handling(p)
  PROVE  Latest(Ctid(p), "enter") <=> EventAt(p).kind = "leave"
<1> DEFINE c == Ctid(p)
<1>1. ASSUME Latest(c, "enter"), EventAt(p).kind # "leave"
      PROVE  FALSE
  <2>1. PICK q \in PlacesOf(c) : /\ EventAt(q).kind = "enter" /\ Done(q)
                                 /\ \A r \in PlacesOf(c) : r[2] # 0 /\ Done(r) => Nth(r) <= Nth(q)
    BY <1>1 DEF Latest
  <2>2. q \in Place /\ Ctid(q) = c
    BY HandlingFacts, PlaceFacts
  <2>3. Scripted(q)
    BY <2>2, HandlingFacts, ScriptFacts
  <2> DEFINE r == <<q[1], q[2] + 1>>
  <2>4. r \in PlacesOf(c) /\ EventAt(r).kind = "leave"
    BY <2>1, <2>2, <2>3 DEF Scripted
  <2>5. r[1] = q[1] /\ r[2] = q[2] + 1
    OBVIOUS
  <2> HIDE DEF r
  <2>6. p \in PlacesOf(c) /\ ProgramTypes
    BY HandlingFacts
  <2>7. /\ Nth(q) < Nth(r) <=> q[1] < r[1] \/ (q[1] = r[1] /\ q[2] < r[2])
        /\ q[1] \in Nat /\ q[2] \in Nat /\ Nth(q) \in Nat /\ Nth(r) \in Nat
    BY <2>4, <2>6, NthOrder
  <2>8. Nth(q) < Nth(r) /\ ~Done(r)
    BY <2>1, <2>4, <2>5, <2>7
  <2>9. Nth(q) < Nth(p) /\ Nth(p) <= Nth(r) /\ Nth(p) \in Nat
    BY <2>1, <2>4, <2>8, HandlingFacts
  <2>10. p # r
    BY <1>1, <2>4
  <2>11. Nth(p) < Nth(r)
    BY <2>4, <2>6, <2>7, <2>9, <2>10, NthDiffers
  <2>12. /\ Nth(q) < Nth(p) <=> q[1] < p[1] \/ (q[1] = p[1] /\ q[2] < p[2])
         /\ p[1] \in Nat /\ p[2] \in Nat
    BY <2>6, NthOrder
  <2>13. Nth(p) < Nth(r) <=> p[1] < r[1] \/ (p[1] = r[1] /\ p[2] < r[2])
    BY <2>4, <2>6, NthOrder
  <2> QED
    BY <2>5, <2>7, <2>9, <2>11, <2>12, <2>13
<1>2. ASSUME EventAt(p).kind = "leave"
      PROVE  Latest(c, "enter")
  <2> DEFINE q == <<p[1], p[2] - 1>>
  <2>1. p[2] > 1 /\ q \in PlacesOf(c) /\ EventAt(q).kind = "enter"
    BY <1>2, HandlingFacts DEF Scripted
  <2>2. q[1] = p[1] /\ q[2] = p[2] - 1
    OBVIOUS
  <2> HIDE DEF q
  <2>3. p \in PlacesOf(c) /\ ProgramTypes
    BY HandlingFacts
  <2>4. /\ Nth(q) < Nth(p) <=> q[1] < p[1] \/ (q[1] = p[1] /\ q[2] < p[2])
        /\ p[1] \in Nat /\ p[2] \in Nat
    BY <2>1, <2>3, NthOrder
  <2>5. Done(q)
    BY <2>1, <2>2, <2>4, HandlingFacts
  <2>6. ASSUME NEW r \in PlacesOf(c), Done(r)
        PROVE  Nth(r) <= Nth(q)
    <3>1. Nth(r) < Nth(p)
      BY <2>6, HandlingFacts
    <3>2. /\ Nth(r) < Nth(p) <=> r[1] < p[1] \/ (r[1] = p[1] /\ r[2] < p[2])
          /\ r[1] \in Nat /\ r[2] \in Nat
      BY <2>3, NthOrder
    <3>3. /\ Nth(q) < Nth(r) <=> q[1] < r[1] \/ (q[1] = r[1] /\ q[2] < r[2])
          /\ Nth(q) \in Nat /\ Nth(r) \in Nat
      BY <2>1, <2>3, NthOrder
    <3> QED
      BY <2>2, <2>4, <3>1, <3>2, <3>3
  <2> QED
    BY <2>1, <2>5, <2>6 DEF Latest
<1> QED
  BY <1>1, <1>2

\* A thread has not done its last event yet, ...
LEMMA NotExited ==
  ASSUME NEW p, Handling(p)
  PROVE  ~Exited(Ctid(p))
<1> SUFFICES ASSUME Exited(Ctid(p)) PROVE FALSE
  OBVIOUS
<1>1. PICK q \in PlacesOf(Ctid(p)) : EventAt(q).kind = "exit" /\ Done(q)
  BY DEF Exited
<1>2. q \in Place /\ Ctid(q) = Ctid(p)
  BY HandlingFacts, PlaceFacts
<1>3. Scripted(q)
  BY <1>2, HandlingFacts, ScriptFacts
<1>4. Nth(p) <= Nth(q)
  BY <1>1, <1>2, <1>3, HandlingFacts DEF Scripted
<1> QED
  BY <1>1, <1>4, HandlingFacts

\* ... and it does that right after no join.
LEMMA NotAfterJoin ==
  ASSUME NEW p, Handling(p), EventAt(p).kind = "exit", Ctid(p) # 0, ~ReturnsAfterJoin
  PROVE  ~Latest(Ctid(p), "join")
<1> DEFINE c == Ctid(p)
<1> SUFFICES ASSUME Latest(c, "join") PROVE FALSE
  OBVIOUS
<1>1. PICK q \in PlacesOf(c) : /\ EventAt(q).kind = "join" /\ Done(q)
                               /\ \A r \in PlacesOf(c) : r[2] # 0 /\ Done(r) => Nth(r) <= Nth(q)
  BY DEF Latest
<1>2. q \in Place /\ Ctid(q) = c /\ p \in PlacesOf(c) /\ ProgramTypes
  BY HandlingFacts, PlaceFacts
<1>3. Scripted(q)
  BY <1>2, HandlingFacts, ScriptFacts
<1>4. /\ q[1] < p[1] \/ (q[1] = p[1] /\ q[2] < p[2])
      /\ q[1] \in Nat /\ q[2] \in Nat /\ p[1] \in Nat /\ p[2] \in Nat
  BY <1>1, <1>2, HandlingFacts, NthOrder
<1>5. q = <<q[1], q[2]>> /\ p = <<p[1], p[2]>> /\ q[2] # 0
  BY <1>1, <1>2, HandlingFacts, NextPlaces, EventFacts
<1>6. ASSUME NEW r \in PlacesOf(c), r[2] # 0, q[1] = r[1], q[2] <= r[2],
             r[1] < p[1] \/ (r[1] = p[1] /\ r[2] < p[2])
      PROVE  r = q
  <2>1. r = <<r[1], r[2]>> /\ r[1] \in Nat /\ r[2] \in Nat
    BY <1>2, PlaceFacts
  <2>2. Nth(r) < Nth(p)
    BY <1>2, <1>6, NthOrder
  <2>3. Nth(r) <= Nth(q) /\ Nth(r) \in Nat /\ Nth(q) \in Nat
    BY <1>1, <1>6, <2>2, HandlingFacts
  <2>4. ~(Nth(q) < Nth(r))
    BY <2>3
  <2>5. ~(q[1] < r[1] \/ (q[1] = r[1] /\ q[2] < r[2]))
    BY <1>2, <2>4, NthOrder
  <2> QED
    BY <1>4, <1>5, <1>6, <2>1, <2>5
<1>7. CASE q[1] = p[1]
  <2> DEFINE r == <<p[1], p[2] - 1>>
  <2>1. p[2] > 1
    BY <1>4, <1>5, <1>7
  <2>2. r \in PlacesOf(c) /\ EventAt(r).kind # "join"
    BY <2>1, HandlingFacts DEF Scripted
  <2>3. r[1] = p[1] /\ r[2] = p[2] - 1
    OBVIOUS
  <2> HIDE DEF r
  <2>4. r = q
    BY <1>4, <1>6, <1>7, <2>1, <2>2, <2>3
  <2> QED
    BY <1>1, <2>2, <2>4
<1>8. CASE q[1] # p[1]
  <2> DEFINE r == <<q[1], Len(file[q[1]].events)>>
  <2>1. /\ Len(file[q[1]].events) # 0 /\ r \in PlacesOf(c)
        /\ EventAt(r).kind \in {"exit", "block"}
    BY <1>2, <1>3 DEF Scripted
  <2>2. q[2] <= Len(file[q[1]].events)
    BY <1>2, NextPlaces
  <2>3. r[1] = q[1] /\ r[2] = Len(file[q[1]].events)
    OBVIOUS
  <2> HIDE DEF r
  <2>4. r = q
    BY <1>4, <1>6, <1>8, <2>1, <2>2, <2>3
  <2> QED
    BY <1>1, <2>1, <2>4
<1> QED
  BY <1>7, <1>8

\* After an exit nothing comes.
LEMMA ExitIsLatest ==
  ASSUME ProgramTypes, Recorded, Chunks, NEW c, NEW k, Exited(c), Latest(c, k)
  PROVE  k = "exit"
<1>1. PICK x \in PlacesOf(c) : EventAt(x).kind = "exit" /\ Done(x)
  BY DEF Exited
<1>2. PICK q \in PlacesOf(c) : /\ EventAt(q).kind = k /\ Done(q)
                               /\ \A r \in PlacesOf(c) : r[2] # 0 /\ Done(r) => Nth(r) <= Nth(q)
  BY DEF Latest
<1>3. x \in Place /\ Ctid(x) = c
  BY PlaceFacts
<1>4. Scripted(x) /\ x[2] # 0
  BY <1>1, <1>3, ScriptFacts, EventFacts
<1>5. Nth(q) <= Nth(x) /\ Nth(x) <= Nth(q) /\ Nth(q) \in Nat /\ Nth(x) \in Nat
  BY <1>1, <1>2, <1>3, <1>4, NthFacts DEF Scripted
<1>6. x = q
  BY <1>5, NthDiffers
<1> QED
  BY <1>1, <1>2, <1>6

\* Who does something but start has begun, and who starts was created and has not begun.
LEMMA Beginning ==
  ASSUME NEW p, Handling(p), p[2] # 0, Ctid(p) # 0
  PROVE  EventAt(p).kind = "start" <=> ~Begun(Ctid(p))
<1>1. PICK s \in PlacesOf(Ctid(p)) : EventAt(s).kind = "start" /\ (s = p \/ Nth(s) < Nth(p))
  <2>1. ProgramTypes /\ Recorded /\ p \in Place /\ \A c \in Context : buffer[c] = <<>>
    BY DEF Handling
  <2> QED
    BY <2>1, StartPlace
<1>2. s \in Place /\ Ctid(s) = Ctid(p)
  BY HandlingFacts, PlaceFacts
<1>3. ASSUME EventAt(p).kind = "start", Begun(Ctid(p))
      PROVE  FALSE
  <2>1. PICK q \in PlacesOf(Ctid(p)) : EventAt(q).kind = "start" /\ Done(q)
    BY <1>3 DEF Begun
  <2>2. q \in Place /\ Ctid(q) = Ctid(p)
    BY HandlingFacts, PlaceFacts
  <2>3. q = p
    BY <1>3, <2>1, <2>2, HandlingFacts, OneStart
  <2> QED
    BY <2>1, <2>3, HandlingFacts
<1>4. ASSUME EventAt(p).kind # "start"
      PROVE  Begun(Ctid(p))
  <2>1. Nth(s) < Nth(p)
    BY <1>1, <1>4
  <2>2. Done(s)
    BY <1>1, <2>1, HandlingFacts
  <2> QED
    BY <1>1, <2>2 DEF Begun
<1> QED
  BY <1>3, <1>4

LEMMA StartIsCreated ==
  ASSUME NEW p, Handling(p), EventAt(p).kind = "start"
  PROVE  Ctid(p) # 0 /\ Created(Ctid(p))
<1>1. Ctid(p) # 0
  BY HandlingFacts, OneStart
<1>2. Nth(p) <= got[Ctid(p)]
  <2>1. Nth(p) = got[Ctid(p)] /\ Nth(p) \in Nat
    BY HandlingFacts DEF Handling
  <2> QED
    BY <2>1
<1>3. Started(Ctid(p))
  BY <1>2, HandlingFacts DEF Started
<1> QED
  BY <1>1, <1>3, HandlingFacts DEF Handling, CreatedFirst

\* A thread is joined once.
LEMMA NotJoined ==
  ASSUME NEW p, Handling(p), EventAt(p).kind = "join"
  PROVE  ~Joined(EventAt(p).other)
<1> SUFFICES ASSUME Joined(EventAt(p).other) PROVE FALSE
  OBVIOUS
<1>1. PICK q \in Place : EventAt(q).kind = "join" /\ EventAt(q).other = EventAt(p).other /\ Done(q)
  BY DEF Joined
<1>2. q = p
  BY <1>1, HandlingFacts, OneJoin
<1> QED
  BY <1>1, <1>2, HandlingFacts

\* The number of an enter or leave is that of its turn, and of the numbers of enters it
\* is the enter's own.
LEMMA TurnOf ==
  ASSUME NEW p, Handling(p), EventAt(p).kind \in {"enter", "leave"}
  PROVE  /\ EventAt(p).num = Turn /\ Turn \in Nat
         /\ \A d \in Context : Turn \in EnterNums(d) <=> d = Ctid(p) /\ EventAt(p).kind = "enter"
         /\ EventAt(p).kind = "enter" => Ctid(p) \in plan.party
         /\ EventAt(p).kind = "leave" =>
               \A d \in plan.party :
                   Cardinality(Below(d, Turn)) >= Cardinality(Below(Ctid(p), Turn))
<1>1. /\ pc = "main" /\ event = EventAt(p) /\ GlobalOrder /\ p \in Place /\ ProgramTypes
  BY DEF Handling
<1>2. EventAt(p).num = list.barrierNum - 1 /\ EventAt(p).num \in Nat
  BY <1>1, EventFacts DEF GlobalOrder
<1>3. EventAt(p).num = Turn
  BY <1>1, <1>2 DEF Turn
<1> DEFINE s == <<"file", p[1], p[2]>>
<1>4. p[2] # 0
  BY <1>1, EventFacts
<1>5. s \in Spot /\ Owner(s) = Ctid(p) /\ At(s).kind = EventAt(p).kind /\ At(s).num = Turn
  BY <1>1, <1>3, <1>4, EventFacts
<1> HIDE DEF s
<1>6. ASSUME NEW d \in Context
      PROVE  Turn \in EnterNums(d) <=> d = Ctid(p) /\ EventAt(p).kind = "enter"
  <2>1. ASSUME Turn \in EnterNums(d)
        PROVE  d = Ctid(p) /\ EventAt(p).kind = "enter"
    <3>1. PICK t \in Spot : Owner(t) = d /\ At(t).kind = "enter" /\ At(t).num = Turn
      BY <2>1 DEF EnterNums
    <3>2. t = s
      BY <1>5, <3>1, HandlingFacts DEF Recorded, Distinct, SameKey
    <3> QED
      BY <1>5, <3>1, <3>2
  <2>2. ASSUME d = Ctid(p), EventAt(p).kind = "enter"
        PROVE  Turn \in EnterNums(d)
    BY <1>5, <2>2 DEF EnterNums
  <2> QED
    BY <2>1, <2>2
<1>7. EventAt(p).kind = "enter" => Ctid(p) \in plan.party
  <2>1. EventAt(p).kind = "enter" => EnterNums(Ctid(p)) # {}
    BY <1>6, HandlingFacts
  <2> QED
    BY <2>1, HandlingFacts DEF Arrivals
<1>8. EventAt(p).kind = "leave" =>
        \A d \in plan.party :
            Cardinality(Below(d, Turn)) >= Cardinality(Below(Ctid(p), Turn))
  BY <1>5, HandlingFacts DEF Met
<1> QED
  BY <1>2, <1>3, <1>6, <1>7, <1>8

-----------------------------------------------------------------------------
(***************************************************************************)
(* The graph after the event at p.                                         *)
(***************************************************************************)
AfterGone(p) ==
    Gone \cup {d \in Context :
                  \/ EventAt(p).kind = "exit" /\ d = Ctid(p) /\ Joined(d)
                  \/ EventAt(p).kind = "join" /\ d = EventAt(p).other /\ Exited(d)}

AfterAlive(p) ==
    {d \in Context : d = 0 \/ Begun(d) \/ (EventAt(p).kind = "start" /\ d = Ctid(p))}
        \ AfterGone(p)

AfterTurn(p) == IF EventAt(p).kind \in {"enter", "leave"} THEN Turn + 1 ELSE Turn

Even(g, n) == \A d, e \in plan.party : Rounds(g, d, n) = Rounds(g, e, n)

\* What the event changes in the graph that is to agree with the trace.
Tracks(g, h, p) ==
    LET k == EventAt(p).kind
        c == Ctid(p)
    IN  /\ Sees(g, h, c, AfterAlive(p))
        /\ c # 0 => (<<c, 0>> \in DOMAIN h.tasks <=> Begun(c) \/ k = "start")
        /\ Inside(h, c) <=> k = "enter"
        /\ h.exited = IF k = "exit" THEN g.exited \cup {c} ELSE g.exited
        /\ \A d \in Context : h.creators[d] = NoTask =>
              \/ g.creators[d] = NoTask /\ ~(k = "create" /\ d = EventAt(p).other)
              \/ k = "start" /\ d = c
        /\ \A d \in Context : h.joins[d] # NoTask <=>
              /\ g.joins[d] # NoTask \/ (k = "join" /\ d = EventAt(p).other /\ ~Exited(d))
              /\ ~(k = "exit" /\ d = c)
        /\ c \in AfterAlive(p) \ {0} /\ Type(h, activeTask(h, c)) = "join" => k = "join"
        /\ Even(h, AfterTurn(p))

Becomes(g, h, p) == Fine(h, AfterAlive(p), AfterGone(p)) /\ Tracks(g, h, p)

LEMMA BuiltFacts ==
  ASSUME NEW g, Built(g)
  PROVE  /\ Fine(g, Alive, Gone) /\ Alive \subseteq Context /\ Gone \subseteq Context
         /\ GraphOK(g, Alive, Gone) /\ IsGraph(g) /\ Numbered(g) /\ Actives(g, Alive)
         /\ Sound(g, Gone) /\ Barriers(g) /\ Settled(g, Alive) /\ Even(g, Turn)
         /\ \A c \in Context \ {0} : <<c, 0>> \in DOMAIN g.tasks <=> Begun(c)
         /\ g.exited = {c \in Context : Exited(c)}
         /\ \A c \in Context : g.creators[c] = NoTask /\ Created(c) => Begun(c)
         /\ \A c \in Context : g.joins[c] # NoTask <=> Joined(c) /\ ~Exited(c)
         /\ \A c \in Alive \ {0} : Type(g, activeTask(g, c)) = "join" => Latest(c, "join")
         /\ \A c \in Context : Inside(g, c) <=> Latest(c, "enter")
<1>1. Alive \subseteq Context /\ Gone \subseteq Context
  BY DEF Alive, Gone
<1>2. GraphOK(g, Alive, Gone) /\ Settled(g, Alive) /\ Owners(g) /\ Agree(g)
  BY DEF Built
<1>3. Fine(g, Alive, Gone)
  BY <1>2 DEF Fine
<1>4. IsGraph(g) /\ Numbered(g) /\ Actives(g, Alive) /\ Sound(g, Gone) /\ Barriers(g)
  BY <1>2 DEF GraphOK, Sound
<1> QED
  BY <1>1, <1>2, <1>3, <1>4 DEF Agree, Even

LEMMA PartyFacts ==
  ASSUME ProgramTypes
  PROVE  plan.party \subseteq Context /\ 0 \in Context
<1>1. plan \in Programs
  BY DEF ProgramTypes
<1> QED
  BY <1>1, EventQueueAssumption

\* The context of an event goes on from its active task; it is in a barrier if it leaves.
LEMMA RunningIs ==
  ASSUME NEW g, NEW p, Handling(p), Built(g), EventAt(p).kind \notin {"start", "buffer"}
  PROVE  LET c == Ctid(p)
         IN  /\ c \in Context /\ c \in Alive /\ c \notin Gone /\ c \notin g.exited
             /\ ~Exited(c) /\ (c # 0 => Begun(c))
             /\ g.held[c] # {} /\ (Inside(g, c) <=> EventAt(p).kind = "leave")
             /\ \E t : /\ IsActive(g, c, t) /\ t = activeTask(g, c)
                       /\ Type(g, t) \in {"basic_blocks", "create", "join"}
                       /\ EventAt(p).kind # "leave" => Current(g, c, Alive, Gone, t)
<1> DEFINE c == Ctid(p)
<1>1. c \in Context /\ p \in Place /\ ProgramTypes
  BY HandlingFacts
<1>2. ~Exited(c)
  BY NotExited
<1>3. c # 0 => Begun(c)
  <2>1. p[2] # 0
    BY <1>1, EventFacts
  <2> QED
    BY <2>1, Beginning
<1>4. c \in Alive /\ c \notin Gone
  BY <1>1, <1>2, <1>3 DEF Alive, Gone
<1>5. c \notin g.exited
  BY <1>2, BuiltFacts
<1>6. Inside(g, c) <=> EventAt(p).kind = "leave"
  <2>1. Latest(c, "enter") <=> EventAt(p).kind = "leave"
    BY NextIsLeave
  <2> QED
    BY <1>1, <2>1, BuiltFacts
<1> HIDE DEF c
<1>7. PICK t \in g.held[c] : IsActive(g, c, t)
  BY <1>4, BuiltFacts DEF Actives
<1>8. t = activeTask(g, c)
  BY <1>1, <1>7, BuiltFacts, ActiveIs
<1>9. Type(g, t) \in {"basic_blocks", "create", "join"}
  BY <1>4, <1>8, BuiltFacts DEF Settled
<1>10. EventAt(p).kind # "leave" => Current(g, c, Alive, Gone, t)
  BY <1>1, <1>4, <1>6, <1>7, <1>9, BuiltFacts DEF Current
<1> QED
  BY <1>1, <1>2, <1>3, <1>4, <1>5, <1>6, <1>7, <1>8, <1>9, <1>10 DEF c

\* But for starts, exits and joins the same contexts are alive.
LEMMA AfterSame ==
  ASSUME NEW p, EventAt(p).kind \notin {"start", "exit", "join"}
  PROVE  AfterAlive(p) = Alive /\ AfterGone(p) = Gone
<1>1. AfterGone(p) = Gone
  BY DEF AfterGone
<1>2. AfterAlive(p) = Alive
  BY <1>1 DEF AfterAlive, Alive
<1> QED
  BY <1>1, <1>2

LEMMA EvenSame ==
  ASSUME NEW g, NEW h, NEW n, ProgramTypes, Even(g, n),
         \A d \in Context : Awaiting(h, d) <=> Awaiting(g, d)
  PROVE  Even(h, n)
<1>1. \A d \in plan.party : Rounds(h, d, n) = Rounds(g, d, n)
  BY PartyFacts DEF Rounds
<1> QED
  BY <1>1 DEF Even

\* When nothing happens to the barriers.
LEMMA CalmTracks ==
  ASSUME NEW g, NEW h, NEW p, Handling(p), Built(g),
         EventAt(p).kind \notin {"start", "enter", "leave", "buffer"},
         Calm(g, h, Ctid(p), AfterAlive(p)),
         h.exited = IF EventAt(p).kind = "exit" THEN g.exited \cup {Ctid(p)} ELSE g.exited,
         \A d \in Context : h.creators[d] = NoTask =>
             g.creators[d] = NoTask /\ ~(EventAt(p).kind = "create" /\ d = EventAt(p).other),
         \A d \in Context : h.joins[d] # NoTask <=>
              /\ \/ g.joins[d] # NoTask
                 \/ EventAt(p).kind = "join" /\ d = EventAt(p).other /\ ~Exited(d)
              /\ ~(EventAt(p).kind = "exit" /\ d = Ctid(p)),
         Ctid(p) \in AfterAlive(p) \ {0} /\ Type(h, activeTask(h, Ctid(p))) = "join" =>
             EventAt(p).kind = "join"
  PROVE  Tracks(g, h, p)
<1> DEFINE c == Ctid(p)
<1>1. c \in Context /\ (c # 0 => Begun(c)) /\ (Inside(g, c) <=> EventAt(p).kind = "leave")
  BY RunningIs
<1>2. Sees(g, h, c, AfterAlive(p))
  BY DEF Calm
<1>3. c # 0 => (<<c, 0>> \in DOMAIN h.tasks <=> Begun(c) \/ EventAt(p).kind = "start")
  <2>1. <<c, 0>> \in DOMAIN h.tasks <=> <<c, 0>> \in DOMAIN g.tasks
    BY DEF Calm
  <2>2. c # 0 => (<<c, 0>> \in DOMAIN g.tasks <=> Begun(c))
    BY <1>1, BuiltFacts
  <2> QED
    BY <2>1, <2>2
<1>4. Inside(h, c) <=> EventAt(p).kind = "enter"
  <2>1. Inside(h, c) <=> Inside(g, c)
    BY DEF Calm
  <2> QED
    BY <1>1, <2>1
<1>5. Even(h, AfterTurn(p))
  <2>1. \A d \in Context : Awaiting(h, d) <=> Awaiting(g, d)
    BY DEF Calm
  <2>2. AfterTurn(p) = Turn
    BY DEF AfterTurn
  <2>3. ProgramTypes /\ Even(g, Turn)
    BY HandlingFacts, BuiltFacts
  <2> QED
    BY <2>1, <2>2, <2>3, EvenSame
<1> QED
  BY <1>2, <1>3, <1>4, <1>5 DEF Tracks

LEMMA BlockBecomes ==
  ASSUME NEW g, NEW p, Handling(p), Built(g), EventAt(p).kind = "block"
  PROVE  Becomes(g, Block(g, Ctid(p), EventAt(p).long), p)
<1> DEFINE c == Ctid(p)
           h == Block(g, c, EventAt(p).long)
<1>1. PICK t : Current(g, c, Alive, Gone, t)
  BY RunningIs
<1>2. Fine(g, Alive, Gone)
  BY BuiltFacts
<1>3. /\ Fine(h, Alive, Gone) /\ Calm(g, h, c, Alive)
      /\ h.creators = g.creators /\ h.joins = g.joins /\ h.exited = g.exited
      /\ Type(h, activeTask(h, c)) = "basic_blocks"
  BY <1>1, <1>2, BlockOK
<1> HIDE DEF h
<1>4. AfterAlive(p) = Alive /\ AfterGone(p) = Gone
  BY AfterSame
<1>5. Tracks(g, h, p)
  BY <1>3, <1>4, CalmTracks
<1> QED
  BY <1>3, <1>4, <1>5 DEF Becomes, h

LEMMA SyncBecomes ==
  ASSUME NEW g, NEW p, Handling(p), Built(g), EventAt(p).kind = "sync"
  PROVE  Becomes(g, Sync(g, Ctid(p), EventAt(p).addr, EventAt(p).wait), p)
<1> DEFINE c == Ctid(p)
           h == Sync(g, c, EventAt(p).addr, EventAt(p).wait)
<1>1. PICK t : Current(g, c, Alive, Gone, t)
  BY RunningIs
<1>2. Fine(g, Alive, Gone) /\ c \notin g.exited
  BY BuiltFacts, RunningIs
<1>3. EventAt(p).addr \in Addr /\ EventAt(p).wait \in BOOLEAN
  BY HandlingFacts, SyncPlace
<1>4. /\ Fine(h, Alive, Gone) /\ Calm(g, h, c, Alive)
      /\ h.creators = g.creators /\ h.joins = g.joins /\ h.exited = g.exited
      /\ Type(h, activeTask(h, c)) = "basic_blocks"
  BY <1>1, <1>2, <1>3, SyncOK
<1> HIDE DEF h
<1>5. AfterAlive(p) = Alive /\ AfterGone(p) = Gone
  BY AfterSame
<1>6. Tracks(g, h, p)
  BY <1>4, <1>5, CalmTracks
<1> QED
  BY <1>4, <1>5, <1>6 DEF Becomes, h

LEMMA CreateBecomes ==
  ASSUME NEW g, NEW p, Handling(p), Built(g), EventAt(p).kind = "create"
  PROVE  Becomes(g, Create(g, Ctid(p), EventAt(p).other), p)
<1> DEFINE c == Ctid(p)
           d == EventAt(p).other
           h == Create(g, c, d)
<1>1. PICK t : Current(g, c, Alive, Gone, t)
  BY RunningIs
<1>2. Fine(g, Alive, Gone) /\ c \notin g.exited
  BY BuiltFacts, RunningIs
<1>3. d \in Context /\ creator[d] = c
  BY HandlingFacts, OtherPlace
<1>4. /\ Fine(h, Alive, Gone) /\ Calm(g, h, c, Alive)
      /\ h.creators[d] # NoTask
      /\ \A e \in Context \ {d} : h.creators[e] = g.creators[e]
      /\ h.joins = g.joins /\ h.exited = g.exited
      /\ Type(h, activeTask(h, c)) = "create"
  BY <1>1, <1>2, <1>3, CreateOK
<1> HIDE DEF h
<1>5. AfterAlive(p) = Alive /\ AfterGone(p) = Gone
  BY AfterSame
<1>6. \A e \in Context : h.creators[e] = NoTask =>
          g.creators[e] = NoTask /\ ~(EventAt(p).kind = "create" /\ e = EventAt(p).other)
  BY <1>4
<1>7. Tracks(g, h, p)
  BY <1>4, <1>5, <1>6, CalmTracks
<1> QED
  BY <1>4, <1>5, <1>7 DEF Becomes, h

\* A join comes before the exit of the thread or after it.
LEMMA JoinBecomes ==
  ASSUME NEW g, NEW p, Handling(p), Built(g), EventAt(p).kind = "join", ~ReturnsAfterJoin
  PROVE  Becomes(g, Join(g, Ctid(p), EventAt(p).other), p)
<1> DEFINE c == Ctid(p)
           d == EventAt(p).other
           h == Join(g, c, d)
<1>1. PICK t : Current(g, c, Alive, Gone, t)
  BY RunningIs
<1>2. Fine(g, Alive, Gone) /\ c \notin g.exited /\ c \in Context
  BY BuiltFacts, RunningIs
<1>3. d \in Context /\ creator[d] = c /\ d # c /\ d # 0
  BY HandlingFacts, OtherPlace
<1>4. ~Joined(d)
  BY NotJoined
<1>5. \A e \in Context : e # d => (e \in AfterGone(p) <=> e \in Gone)
  BY DEF AfterGone
<1>6. AfterAlive(p) = {e \in Context : e = 0 \/ Begun(e)} \ AfterGone(p)
  BY DEF AfterAlive
<1>7. d \notin Gone
  BY <1>4 DEF Gone
<1>8. CASE d \in g.exited
  <2>1. Exited(d)
    BY <1>8, BuiltFacts
  <2>2. ProgramTypes /\ Recorded /\ Chunks
    BY HandlingFacts
  <2>3. Begun(d)
    <3>1. PICK x \in PlacesOf(d) : EventAt(x).kind = "exit" /\ Done(x)
      BY <2>1 DEF Exited
    <3>2. x \in Place /\ Ctid(x) = d /\ x[2] # 0
      BY <2>2, <3>1, PlaceFacts, EventFacts
    <3>3. PICK s \in PlacesOf(d) : EventAt(s).kind = "start" /\ (s = x \/ Nth(s) < Nth(x))
      BY <1>3, <2>2, <3>2, StartPlace DEF Handling
    <3>4. Ctid(s) = d /\ Nth(s) \in Nat /\ Nth(x) \in Nat /\ Nth(s) <= Nth(x)
      BY <2>2, <3>3, PlaceFacts, NthFacts
    <3>5. Dealt(d) \in Int
      BY <1>3 DEF Dealt, Handling, ListTypes
    <3>6. Done(s)
      BY <3>1, <3>2, <3>4, <3>5 DEF Done
    <3> QED
      BY <3>3, <3>6 DEF Begun
  <2>4. d \in Alive \ {c}
    BY <1>3, <1>7, <2>3 DEF Alive
  <2>5. ~Inside(g, d)
    <3>1. ~Latest(d, "enter")
      BY <2>1, <2>2, ExitIsLatest
    <3> QED
      BY <1>3, <3>1, BuiltFacts
  <2>6. Type(g, activeTask(g, d)) # "join"
    <3>1. ~Latest(d, "join")
      BY <2>1, <2>2, ExitIsLatest
    <3> QED
      BY <1>3, <2>4, <3>1, BuiltFacts
  <2>7. /\ Fine(h, Alive \ {d}, Gone \cup {d}) /\ Calm(g, h, c, Alive \ {d})
        /\ h.creators = g.creators /\ h.joins = g.joins /\ h.exited = g.exited
        /\ Type(h, activeTask(h, c)) = "join"
    BY <1>1, <1>2, <1>3, <1>8, <2>4, <2>5, <2>6, JoinLateOK
  <2> HIDE DEF h
  <2>8. AfterGone(p) = Gone \cup {d}
    BY <1>3, <2>1 DEF AfterGone
  <2>9. AfterAlive(p) = Alive \ {d}
    BY <1>6, <2>8 DEF Alive
  <2>10. Tracks(g, h, p)
    BY <2>1, <2>7, <2>9, CalmTracks
  <2> QED
    BY <2>7, <2>8, <2>9, <2>10 DEF Becomes, h
<1>9. CASE d \notin g.exited
  <2>1. ~Exited(d)
    BY <1>3, <1>9, BuiltFacts
  <2>2. /\ Fine(h, Alive, Gone) /\ Calm(g, h, c, Alive)
        /\ h.joins[d] # NoTask /\ \A e \in Context \ {d} : h.joins[e] = g.joins[e]
        /\ h.creators = g.creators /\ h.exited = g.exited
        /\ Type(h, activeTask(h, c)) = "join"
    BY <1>1, <1>2, <1>3, <1>9, JoinEarlyOK
  <2> HIDE DEF h
  <2>3. AfterGone(p) = Gone
    BY <2>1 DEF AfterGone
  <2>4. AfterAlive(p) = Alive
    BY <1>6, <2>3 DEF Alive
  <2>5. \A e \in Context : h.joins[e] # NoTask <=>
           /\ \/ g.joins[e] # NoTask
              \/ EventAt(p).kind = "join" /\ e = EventAt(p).other /\ ~Exited(e)
           /\ ~(EventAt(p).kind = "exit" /\ e = Ctid(p))
    BY <2>1, <2>2
  <2>6. Tracks(g, h, p)
    BY <2>2, <2>4, <2>5, CalmTracks
  <2> QED
    BY <2>2, <2>3, <2>4, <2>6 DEF Becomes, h
<1> QED
  BY <1>8, <1>9

\* An exit comes before the join of the thread or after it.
LEMMA ExitBecomes ==
  ASSUME NEW g, NEW p, Handling(p), Built(g), EventAt(p).kind = "exit", ~ReturnsAfterJoin
  PROVE  Becomes(g, Exit(g, Ctid(p), EventAt(p).other), p)
<1> DEFINE c == Ctid(p)
           h == Exit(g, c, creator[c])
<1>1. PICK t : /\ Current(g, c, Alive, Gone, t) /\ IsActive(g, c, t) /\ t = activeTask(g, c)
  BY RunningIs
<1>2. /\ Fine(g, Alive, Gone) /\ c \in Context /\ c \in Alive /\ c \notin Gone /\ ~Exited(c)
      /\ c # 0 => Begun(c)
  BY BuiltFacts, RunningIs
<1>3. EventAt(p).other = creator[c]
  BY HandlingFacts DEF Scripted
<1>4. g.joins[c] # NoTask <=> Joined(c)
  BY <1>2, BuiltFacts
<1>5. c # 0 => ~Latest(c, "join")
  BY NotAfterJoin
<1>6. c # 0 => Type(g, activeTask(g, c)) # "join"
  BY <1>2, <1>5, BuiltFacts
<1>7. AfterAlive(p) = {e \in Context : e = 0 \/ Begun(e)} \ AfterGone(p)
  BY DEF AfterAlive
<1>8. CASE Joined(c)
  <2>1. creator[c] # c /\ c # 0
    <3>1. PICK q \in Place : EventAt(q).kind = "join" /\ EventAt(q).other = c
      BY <1>8 DEF Joined
    <3> QED
      BY <3>1, HandlingFacts, OtherPlace
  <2>2. Type(g, t) # "join" /\ g.joins[c] # NoTask
    BY <1>1, <1>4, <1>6, <1>8, <2>1
  <2>3. /\ Fine(h, Alive \ {c}, Gone \cup {c}) /\ Calm(g, h, c, Alive \ {c})
        /\ h.creators = g.creators /\ h.exited = g.exited \cup {c}
        /\ h.joins[c] = NoTask /\ \A d \in Context \ {c} : h.joins[d] = g.joins[d]
    <3>1. Current(g, c, Alive, Gone, t) /\ Fine(g, Alive, Gone) /\ c \in Alive
      BY <1>1, <1>2
    <3>2. creator[c] # c
      BY <2>1
    <3>3. g.joins[c] # NoTask /\ Type(g, t) # "join"
      BY <2>2
    <3>4. LateExit(g, h, c, Alive, Gone)
      BY <3>1, <3>2, <3>3, ExitLateOK
    <3> QED
      BY <3>4 DEF LateExit
  <2> HIDE DEF h
  <2>4. AfterGone(p) = Gone \cup {c}
    BY <1>2, <1>8 DEF AfterGone
  <2>5. AfterAlive(p) = Alive \ {c}
    BY <1>7, <2>4 DEF Alive
  <2>6. \A d \in Context : h.joins[d] # NoTask <=>
           /\ \/ g.joins[d] # NoTask
              \/ EventAt(p).kind = "join" /\ d = EventAt(p).other /\ ~Exited(d)
           /\ ~(EventAt(p).kind = "exit" /\ d = Ctid(p))
    BY <2>3
  <2>7. Tracks(g, h, p)
    BY <2>3, <2>5, <2>6, CalmTracks
  <2> QED
    BY <1>3, <2>3, <2>4, <2>5, <2>7 DEF Becomes, h
<1>9. CASE ~Joined(c)
  <2>1. g.joins[c] = NoTask
    BY <1>4, <1>9
  <2>2. /\ Fine(h, Alive, Gone) /\ Calm(g, h, c, Alive)
        /\ h.creators = g.creators /\ h.joins = g.joins /\ h.exited = g.exited \cup {c}
        /\ Type(h, activeTask(h, c)) = Type(g, activeTask(g, c))
    BY <1>2, <2>1, ExitEarlyOK
  <2> HIDE DEF h
  <2>3. AfterGone(p) = Gone
    BY <1>9 DEF AfterGone
  <2>4. AfterAlive(p) = Alive
    BY <1>7, <2>3 DEF Alive
  <2>5. \A d \in Context : h.joins[d] # NoTask <=>
           /\ \/ g.joins[d] # NoTask
              \/ EventAt(p).kind = "join" /\ d = EventAt(p).other /\ ~Exited(d)
           /\ ~(EventAt(p).kind = "exit" /\ d = Ctid(p))
    BY <2>1, <2>2
  <2>6. Tracks(g, h, p)
    BY <1>6, <2>2, <2>4, <2>5, CalmTracks
  <2> QED
    BY <1>3, <2>2, <2>3, <2>4, <2>6 DEF Becomes, h
<1> QED
  BY <1>8, <1>9

LEMMA StartBecomes ==
  ASSUME NEW g, NEW p, Handling(p), Built(g), EventAt(p).kind = "start"
  PROVE  g.held[Ctid(p)] = {} /\ Becomes(g, Start(g, Ctid(p)), p)
<1> DEFINE c == Ctid(p)
           h == Start(g, c)
<1>1. c \in Context \ {0} /\ Created(c) /\ p \in Place /\ ProgramTypes
  BY HandlingFacts, StartIsCreated
<1>2. ~Begun(c)
  <2>1. p[2] # 0
    BY <1>1, EventFacts
  <2> QED
    BY <1>1, <2>1, Beginning
<1>3. /\ Fine(g, Alive, Gone) /\ Alive \in SUBSET Context /\ Gone \in SUBSET Context
      /\ IsGraph(g) /\ Numbered(g) /\ Even(g, Turn)
  BY BuiltFacts
<1>4. g.creators[c] # NoTask /\ <<c, 0>> \notin DOMAIN g.tasks
  BY <1>1, <1>2, BuiltFacts
<1>5. ~Exited(c)
  BY NotExited
<1>6. c \notin Alive /\ c \notin Gone
  BY <1>1, <1>2, <1>5 DEF Alive, Gone
<1>7. ~Inside(g, c)
  <2>1. ~Latest(c, "enter")
    BY NextIsLeave
  <2> QED
    BY <1>1, <2>1, BuiltFacts
<1>8. g.held[c] = {}
  <2> SUFFICES ASSUME NEW t \in g.held[c] PROVE FALSE
    BY <1>1, <1>3 DEF IsGraph
  <2>1. t \in DOMAIN g.tasks /\ t[1] = c
    BY <1>1, <1>3 DEF IsGraph, Numbered
  <2>2. t[2] \in Nat
    BY <1>3, <2>1, TaskFacts
  <2>3. 0 \in 0 .. t[2]
    BY <2>2
  <2>4. <<t[1], 0>> \in DOMAIN g.tasks
    BY <1>3, <2>1, <2>3 DEF Numbered
  <2> QED
    BY <1>4, <2>1, <2>4
<1>9. /\ Fine(h, Alive \cup {c}, Gone) /\ Sees(g, h, c, Alive)
      /\ \A d \in Context : Awaiting(h, d) <=> Awaiting(g, d)
      /\ <<c, 0>> \in DOMAIN h.tasks /\ ~Inside(h, c)
      /\ h.creators[c] = NoTask
      /\ \A d \in Context \ {c} : h.creators[d] = g.creators[d]
      /\ h.joins = g.joins /\ h.exited = g.exited
      /\ Type(h, activeTask(h, c)) = "basic_blocks"
  BY <1>1, <1>3, <1>4, <1>6, <1>7, StartOK
<1> HIDE DEF h
<1>10. AfterGone(p) = Gone
  BY DEF AfterGone
<1>11. AfterAlive(p) = Alive \cup {c}
  BY <1>1, <1>6, <1>10 DEF Alive, AfterAlive
<1>12. Sees(g, h, c, AfterAlive(p))
  BY <1>9, <1>11 DEF Sees
<1>13. Even(h, AfterTurn(p))
  <2>1. AfterTurn(p) = Turn
    BY DEF AfterTurn
  <2> QED
    BY <1>1, <1>3, <1>9, <2>1, EvenSame
<1>14. Tracks(g, h, p)
  BY <1>9, <1>12, <1>13 DEF Tracks
<1> QED
  BY <1>8, <1>9, <1>10, <1>11, <1>14 DEF Becomes, h

\* The numbers of enters up to and with that of the event.
LEMMA BelowNext ==
  ASSUME NEW p, Handling(p), EventAt(p).kind \in {"enter", "leave"}, NEW d \in Context
  PROVE  /\ Cardinality(Below(d, Turn)) \in Nat
         /\ Cardinality(Below(d, Turn + 1)) =
               Cardinality(Below(d, Turn)) +
                   IF d = Ctid(p) /\ EventAt(p).kind = "enter" THEN 1 ELSE 0
<1>1. /\ Turn \in Nat
      /\ Turn \in EnterNums(d) <=> d = Ctid(p) /\ EventAt(p).kind = "enter"
  BY TurnOf
<1>2. \A k \in EnterNums(d) : k \in Nat
  BY HandlingFacts, NumsDrawn
<1>3. IsFiniteSet(EnterNums(d))
  BY HandlingFacts DEF Arrivals
<1>4. Below(d, Turn) \subseteq EnterNums(d) /\ Turn \notin Below(d, Turn)
  BY <1>1 DEF Below
<1>5. IsFiniteSet(Below(d, Turn)) /\ Cardinality(Below(d, Turn)) \in Nat
  BY <1>3, <1>4, FS_Subset, FS_CardinalityType
<1>6. CASE Turn \in EnterNums(d)
  <2>1. Below(d, Turn + 1) = Below(d, Turn) \cup {Turn}
    <3>1. \A k \in EnterNums(d) : k < Turn + 1 <=> (k < Turn \/ k = Turn)
      <4> SUFFICES ASSUME NEW k \in EnterNums(d) PROVE k < Turn + 1 <=> (k < Turn \/ k = Turn)
        OBVIOUS
      <4>1. k \in Nat
        BY <1>2
      <4> QED
        BY <1>1, <4>1
    <3> QED
      BY <1>6, <3>1 DEF Below
  <2>2. Cardinality(Below(d, Turn) \cup {Turn}) = Cardinality(Below(d, Turn)) + 1
    BY <1>4, <1>5, FS_AddElement
  <2> QED
    BY <1>1, <1>5, <1>6, <2>1, <2>2
<1>7. CASE Turn \notin EnterNums(d)
  <2>1. \A k \in EnterNums(d) : k < Turn + 1 <=> k < Turn
    <3> SUFFICES ASSUME NEW k \in EnterNums(d) PROVE k < Turn + 1 <=> k < Turn
      OBVIOUS
    <3>1. k \in Nat /\ k # Turn
      BY <1>2, <1>7
    <3> QED
      BY <1>1, <3>1
  <2>2. Below(d, Turn + 1) = Below(d, Turn)
    BY <2>1 DEF Below
  <2> QED
    BY <1>1, <1>5, <1>7, <2>2
<1> QED
  BY <1>6, <1>7

LEMMA AwaitingFacts ==
  ASSUME NEW g, Barriers(g), NEW d, Awaiting(g, d)
  PROVE  Inside(g, d) /\ d \in plan.party
<1>1. g.entry # NoTask /\ d \in Contexts(g.tasks[g.entry].pred)
  BY DEF Awaiting
<1>2. g.entry \in Open(g)
  BY <1>1 DEF Open
<1>3. OpenOK(g, g.entry) /\ g.tasks[g.entry].succ = {}
  BY <1>1, <1>2 DEF Barriers
<1>4. d \notin Contexts(g.tasks[g.entry].succ)
  BY <1>3 DEF Contexts
<1> QED
  BY <1>1, <1>2, <1>3, <1>4 DEF Inside, Within, OpenOK

LEMMA EnterBecomes ==
  ASSUME NEW g, NEW p, Handling(p), Built(g), EventAt(p).kind = "enter"
  PROVE  Becomes(g, Enter(g, Ctid(p)), p)
<1> DEFINE c == Ctid(p)
           h == Enter(g, c)
<1>1. PICK t : Current(g, c, Alive, Gone, t)
  BY RunningIs
<1>2. /\ Fine(g, Alive, Gone) /\ Even(g, Turn) /\ Barriers(g) /\ c \in Context
      /\ c # 0 => (<<c, 0>> \in DOMAIN g.tasks <=> Begun(c))
  BY BuiltFacts, RunningIs
<1>3. c \in plan.party
  BY TurnOf
<1>4. Entered(g, h, c, Alive, Gone)
  BY <1>1, <1>2, <1>3, EnterOK
<1> HIDE DEF h
<1>5. AfterAlive(p) = Alive /\ AfterGone(p) = Gone /\ AfterTurn(p) = Turn + 1
  BY AfterSame DEF AfterTurn
<1>6. ~Awaiting(g, c) /\ Awaiting(h, c)
  <2>1. ~Inside(g, c)
    BY RunningIs
  <2> QED
    BY <1>2, <1>4, <2>1, AwaitingFacts DEF Entered
<1>7. ASSUME NEW d \in plan.party
      PROVE  Rounds(h, d, Turn + 1) = Rounds(g, d, Turn)
  <2>1. d \in Context
    BY HandlingFacts, PartyFacts
  <2>2. /\ Cardinality(Below(d, Turn)) \in Nat
        /\ Cardinality(Below(d, Turn + 1)) =
              Cardinality(Below(d, Turn)) + IF d = c THEN 1 ELSE 0
    BY <2>1, BelowNext
  <2>3. CASE d = c
    BY <1>6, <2>2, <2>3 DEF Rounds
  <2>4. CASE d # c
    <3>1. Awaiting(h, d) <=> Awaiting(g, d)
      BY <1>4, <2>1, <2>4 DEF Entered
    <3> QED
      BY <2>2, <2>4, <3>1 DEF Rounds
  <2> QED
    BY <2>3, <2>4
<1>8. Even(h, AfterTurn(p))
  BY <1>2, <1>5, <1>7 DEF Even
<1>9. Tracks(g, h, p)
  <2>1. /\ Sees(g, h, c, Alive) /\ Inside(h, c)
        /\ <<c, 0>> \in DOMAIN h.tasks <=> <<c, 0>> \in DOMAIN g.tasks
        /\ h.creators = g.creators /\ h.joins = g.joins /\ h.exited = g.exited
        /\ Type(h, activeTask(h, c)) = "basic_blocks"
    BY <1>4 DEF Entered
  <2> QED
    BY <1>2, <1>5, <1>8, <2>1 DEF Tracks
<1>10. Fine(h, Alive, Gone)
  BY <1>4 DEF Entered
<1> QED
  BY <1>5, <1>9, <1>10 DEF Becomes, h

LEMMA LeaveBecomes ==
  ASSUME NEW g, NEW p, Handling(p), Built(g), EventAt(p).kind = "leave"
  PROVE  Becomes(g, Leave(g, Ctid(p)), p)
<1> DEFINE c == Ctid(p)
           h == Leave(g, c)
<1>1. /\ Fine(g, Alive, Gone) /\ Even(g, Turn) /\ Barriers(g) /\ c \in Context
      /\ c # 0 => (<<c, 0>> \in DOMAIN g.tasks <=> Begun(c))
      /\ Alive \subseteq Context /\ Gone \subseteq Context /\ c \in Alive /\ c \notin Gone
      /\ Inside(g, c)
  BY BuiltFacts, RunningIs
<1>2. \A d \in plan.party :
         /\ Cardinality(Below(d, Turn)) >= Cardinality(Below(c, Turn))
         /\ Cardinality(Below(d, Turn)) \in Nat
         /\ Cardinality(Below(d, Turn + 1)) = Cardinality(Below(d, Turn))
  <2> SUFFICES ASSUME NEW d \in plan.party
               PROVE  /\ Cardinality(Below(d, Turn)) >= Cardinality(Below(c, Turn))
                      /\ Cardinality(Below(d, Turn)) \in Nat
                      /\ Cardinality(Below(d, Turn + 1)) = Cardinality(Below(d, Turn))
    OBVIOUS
  <2>1. d \in Context
    BY HandlingFacts, PartyFacts
  <2>2. /\ Cardinality(Below(d, Turn)) \in Nat
        /\ Cardinality(Below(d, Turn + 1)) = Cardinality(Below(d, Turn)) + 0
    BY <2>1, BelowNext
  <2>3. Cardinality(Below(d, Turn)) >= Cardinality(Below(c, Turn))
    BY TurnOf
  <2> QED
    BY <2>2, <2>3
<1>3. Awaiting(g, c) => \A d \in plan.party : Awaiting(g, d)
  <2> SUFFICES ASSUME Awaiting(g, c), NEW d \in plan.party
               PROVE  Awaiting(g, d)
    OBVIOUS
  <2>1. c \in plan.party
    BY <1>1, AwaitingFacts
  <2>2. Rounds(g, c, Turn) = Rounds(g, d, Turn)
    BY <1>1, <2>1 DEF Even
  <2>3. Rounds(g, c, Turn) = Cardinality(Below(c, Turn)) - 1
    BY DEF Rounds
  <2>4. ~Awaiting(g, d) => Rounds(g, d, Turn) = Cardinality(Below(d, Turn)) - 0
    BY DEF Rounds
  <2>5. /\ Cardinality(Below(c, Turn)) \in Nat /\ Cardinality(Below(d, Turn)) \in Nat
        /\ Cardinality(Below(d, Turn)) >= Cardinality(Below(c, Turn))
    BY <1>2, <2>1
  <2> QED
    BY <2>2, <2>3, <2>4, <2>5
<1>4. Left(g, h, c, Alive, Gone)
  BY <1>1, <1>3, LeaveOK
<1> HIDE DEF h
<1>5. AfterAlive(p) = Alive /\ AfterGone(p) = Gone /\ AfterTurn(p) = Turn + 1
  BY AfterSame DEF AfterTurn
<1>6. Even(h, Turn + 1)
  <2>1. CASE Awaiting(g, c)
    <3>1. \A d \in plan.party : Awaiting(g, d) /\ ~Awaiting(h, d)
      BY <1>3, <1>4, <2>1, HandlingFacts, PartyFacts DEF Left
    <3>2. ASSUME NEW d \in plan.party
          PROVE  Rounds(h, d, Turn + 1) = Rounds(g, d, Turn) + 1
      BY <1>2, <3>1 DEF Rounds
    <3> QED
      BY <1>1, <3>2 DEF Even
  <2>2. CASE ~Awaiting(g, c)
    <3>1. \A d \in plan.party : Awaiting(h, d) <=> Awaiting(g, d)
      BY <1>4, <2>2, HandlingFacts, PartyFacts DEF Left
    <3>2. ASSUME NEW d \in plan.party
          PROVE  Rounds(h, d, Turn + 1) = Rounds(g, d, Turn)
      BY <1>2, <3>1 DEF Rounds
    <3> QED
      BY <1>1, <3>2 DEF Even
  <2> QED
    BY <2>1, <2>2
<1>7. Tracks(g, h, p)
  <2>1. /\ Sees(g, h, c, Alive) /\ ~Inside(h, c)
        /\ <<c, 0>> \in DOMAIN h.tasks <=> <<c, 0>> \in DOMAIN g.tasks
        /\ h.creators = g.creators /\ h.joins = g.joins /\ h.exited = g.exited
        /\ Type(h, activeTask(h, c)) = "basic_blocks"
    BY <1>4 DEF Left
  <2> QED
    BY <1>1, <1>5, <1>6, <2>1 DEF Tracks
<1>8. Fine(h, Alive, Gone)
  BY <1>4 DEF Left
<1> QED
  BY <1>5, <1>7, <1>8 DEF Becomes, h

\* Whatever the event is.
LEMMA HandledBecomes ==
  ASSUME NEW g, NEW p, Handling(p), Built(g), ~ReturnsAfterJoin, EventAt(p).kind # "buffer"
  PROVE  Becomes(g, Handled(g, EventAt(p)), p)
<1> DEFINE e == EventAt(p)
           c == Ctid(p)
<1>1. e.ctid = c /\ e.kind \in Kinds \ {"buffer"}
  BY HandlingFacts, EventFacts
<1>2. (e.kind = "start") <=> (g.held[c] = {})
  <2>1. e.kind = "start" => g.held[c] = {}
    BY StartBecomes
  <2>2. e.kind # "start" => g.held[c] # {}
    BY RunningIs
  <2> QED
    BY <2>1, <2>2
<1>3. CASE e.kind = "block"
  <2>1. Handled(g, e) = Block(g, c, e.long)
    BY <1>1, <1>2, <1>3 DEF Handled
  <2> QED
    BY <1>3, <2>1, BlockBecomes
<1>4. CASE e.kind = "create"
  <2>1. Handled(g, e) = Create(g, c, e.other)
    BY <1>1, <1>2, <1>4 DEF Handled
  <2> QED
    BY <1>4, <2>1, CreateBecomes
<1>5. CASE e.kind = "start"
  <2>1. Handled(g, e) = Start(g, c)
    BY <1>1, <1>2, <1>5 DEF Handled
  <2> QED
    BY <1>5, <2>1, StartBecomes
<1>6. CASE e.kind = "sync"
  <2>1. Handled(g, e) = Sync(g, c, e.addr, e.wait)
    BY <1>1, <1>2, <1>6 DEF Handled
  <2> QED
    BY <1>6, <2>1, SyncBecomes
<1>7. CASE e.kind = "exit"
  <2>1. Handled(g, e) = Exit(g, c, e.other)
    BY <1>1, <1>2, <1>7 DEF Handled
  <2> QED
    BY <1>7, <2>1, ExitBecomes
<1>8. CASE e.kind = "join"
  <2>1. Handled(g, e) = Join(g, c, e.other)
    BY <1>1, <1>2, <1>8 DEF Handled
  <2> QED
    BY <1>8, <2>1, JoinBecomes
<1>9. CASE e.kind = "enter"
  <2>1. Handled(g, e) = Enter(g, c)
    BY <1>1, <1>2, <1>9 DEF Handled
  <2> QED
    BY <1>9, <2>1, EnterBecomes
<1>10. CASE e.kind = "leave"
  <2>1. Handled(g, e) = Leave(g, c)
    BY <1>1, <1>2, <1>10 DEF Handled
  <2> QED
    BY <1>10, <2>1, LeaveBecomes
<1> QED
  BY <1>1, <1>3, <1>4, <1>5, <1>6, <1>7, <1>8, <1>9, <1>10 DEF Kinds

-----------------------------------------------------------------------------
(***************************************************************************)
(* The steps of the middle layer.                                          *)
(***************************************************************************)

\* What does not depend on the place in the trace.
LEMMA SamePlaces ==
  ASSUME UNCHANGED program
  PROVE  /\ Place' = Place /\ \A c : PlacesOf(c)' = PlacesOf(c)
         /\ \A p : EventAt(p)' = EventAt(p) /\ Nth(p)' = Nth(p) /\ Ctid(p)' = Ctid(p)
         /\ \A d : EnterNums(d)' = EnterNums(d)
         /\ plan' = plan
<1>1. file' = file /\ buffer' = buffer /\ plan' = plan
  BY DEF program
<1>2. Place' = Place /\ \A c : PlacesOf(c)' = PlacesOf(c)
  BY <1>1 DEF Place, PlacesOf, BuffersOf
<1>3. ASSUME NEW p
      PROVE  EventAt(p)' = EventAt(p) /\ Nth(p)' = Nth(p) /\ Ctid(p)' = Ctid(p)
  BY <1>1 DEF EventAt, Nth, Ctid, PlacesOf, BuffersOf
<1>4. ASSUME NEW d
      PROVE  EnterNums(d)' = EnterNums(d)
  BY <1>1 DEF EnterNums, Spot, FileSpot, BufferSpot, Owner, At
<1> QED
  BY <1>1, <1>2, <1>3, <1>4

LEMMA SameRules ==
  ASSUME UNCHANGED program, NEW g, NEW A, NEW J
  PROVE  /\ Fine(g, A, J)' <=> Fine(g, A, J)
         /\ \A d : Inside(g, d)' <=> Inside(g, d)
         /\ \A t : Type(g, t)' = Type(g, t) /\ \A c : activeTask(g, c)' = activeTask(g, c)
<1>1. creator' = creator /\ plan' = plan
  BY DEF program
<1>2. IsGraph(g)' <=> IsGraph(g)
  BY DEF IsGraph, TaskId, NoTask, Types, GraphFields
<1>3. Numbered(g)' <=> Numbered(g)
  BY DEF Numbered, Type
<1>4. Actives(g, A)' <=> Actives(g, A)
  BY DEF Actives, IsActive, Open, Within, Contexts, NoTask, getNext
<1>5. Joins(g)' <=> Joins(g)
  BY <1>1 DEF Joins, Type, NoTask
<1>6. Creators(g)' <=> Creators(g)
  BY <1>1 DEF Creators, Forks, Type, NoTask
<1>7. Joinings(g, J)' <=> Joinings(g, J)
  BY <1>1 DEF Joinings, Type, getNext
<1>8. Barriers(g)' <=> Barriers(g)
  <2>1. \A b : OpenOK(g, b)' <=> OpenOK(g, b)
    BY <1>1 DEF OpenOK, OnePer, Contexts, Type
  <2>2. \A b : Whole(g, b)' <=> Whole(g, b)
    BY <1>1 DEF Whole, OnePer, Contexts
  <2>3. Open(g)' = Open(g)
    BY DEF Open, NoTask
  <2>4. \A b, c : Within(g, b, c)' <=> Within(g, b, c)
    BY DEF Within, Contexts
  <2> QED
    BY <1>1, <2>1, <2>2, <2>3, <2>4 DEF Barriers, Contexts, Type, NoTask
<1>9. \A d : Inside(g, d)' <=> Inside(g, d)
  BY DEF Inside, Open, Within, Contexts, NoTask
<1>10. \A t : Type(g, t)' = Type(g, t)
  BY DEF Type
<1>11. \A c : activeTask(g, c)' = activeTask(g, c)
  BY DEF activeTask
<1>12. Settled(g, A)' <=> Settled(g, A)
  BY <1>9, <1>10, <1>11 DEF Settled, Type, activeTask, Inside, Open, Within, Contexts, NoTask
<1>13. Owners(g)' <=> Owners(g)
  BY DEF Owners, Type, NoTask
<1> QED
  BY <1>2, <1>3, <1>4, <1>5, <1>6, <1>7, <1>8, <1>9, <1>10, <1>11, <1>12, <1>13
  DEF Fine, GraphOK, Sound

\* The places of S have been dealt with and no others.
Deals(S) == S \subseteq Place /\ \A q \in Place : Done(q)' <=> Done(q) \/ q \in S

Does(S, c, k)   == \E q \in S : Ctid(q) = c /\ EventAt(q).kind = k
DoesTo(S, c, k) == \E q \in S : EventAt(q).other = c /\ EventAt(q).kind = k

LEMMA DealsMore ==
  ASSUME ProgramTypes, UNCHANGED program, NEW S, Deals(S), NEW c \in Context
  PROVE  /\ Begun(c)' <=> Begun(c) \/ Does(S, c, "start")
         /\ Exited(c)' <=> Exited(c) \/ Does(S, c, "exit")
         /\ Joined(c)' <=> Joined(c) \/ DoesTo(S, c, "join")
         /\ Created(c)' <=> Created(c) \/ DoesTo(S, c, "create")
<1>1. /\ Place' = Place /\ PlacesOf(c)' = PlacesOf(c)
      /\ \A p : EventAt(p)' = EventAt(p) /\ Nth(p)' = Nth(p) /\ Ctid(p)' = Ctid(p)
  BY SamePlaces
<1>2. \A q : q \in PlacesOf(c) <=> q \in Place /\ Ctid(q) = c
  BY PlaceFacts
<1>3. ASSUME NEW k
      PROVE  (\E q \in PlacesOf(c) : EventAt(q).kind = k /\ Done(q)') <=>
                 \/ \E q \in PlacesOf(c) : EventAt(q).kind = k /\ Done(q)
                 \/ Does(S, c, k)
  BY <1>2 DEF Deals, Does
<1>4. ASSUME NEW k
      PROVE  (\E q \in Place : EventAt(q).kind = k /\ EventAt(q).other = c /\ Done(q)') <=>
                 \/ \E q \in Place : EventAt(q).kind = k /\ EventAt(q).other = c /\ Done(q)
                 \/ DoesTo(S, c, k)
  BY DEF Deals, DoesTo
<1>5. Begun(c)' <=> \E q \in PlacesOf(c) : EventAt(q).kind = "start" /\ Done(q)'
  BY <1>1 DEF Begun
<1>6. Exited(c)' <=> \E q \in PlacesOf(c) : EventAt(q).kind = "exit" /\ Done(q)'
  BY <1>1 DEF Exited
<1>7. Joined(c)' <=> \E q \in Place : EventAt(q).kind = "join" /\ EventAt(q).other = c /\ Done(q)'
  BY <1>1 DEF Joined
<1>8. Created(c)' <=> \E q \in Place : EventAt(q).kind = "create" /\ EventAt(q).other = c /\ Done(q)'
  BY <1>1 DEF Created, Done
<1>9. Begun(c)' <=> Begun(c) \/ Does(S, c, "start")
  BY <1>3, <1>5 DEF Begun
<1>10. Exited(c)' <=> Exited(c) \/ Does(S, c, "exit")
  BY <1>3, <1>6 DEF Exited
<1>11. Joined(c)' <=> Joined(c) \/ DoesTo(S, c, "join")
  BY <1>4, <1>7 DEF Joined
<1>12. Created(c)' <=> Created(c) \/ DoesTo(S, c, "create")
  BY <1>4, <1>8 DEF Created, Done
<1> QED
  BY <1>9, <1>10, <1>11, <1>12

\* What has been done last is the same of those who did nothing but begin a buffer, ...
LEMMA LatestSame ==
  ASSUME ProgramTypes, UNCHANGED program, NEW S, Deals(S), NEW c, NEW k, k # "buffer",
         \A q \in S : Ctid(q) # c \/ q[2] = 0
  PROVE  Latest(c, k)' <=> Latest(c, k)
<1>1. /\ PlacesOf(c)' = PlacesOf(c)
      /\ \A p : EventAt(p)' = EventAt(p) /\ Nth(p)' = Nth(p)
  BY SamePlaces
<1>2. \A q \in PlacesOf(c) : q \in Place /\ Ctid(q) = c
  BY PlaceFacts
<1>3. \A q \in PlacesOf(c) : q[2] # 0 => (Done(q)' <=> Done(q))
  BY <1>2 DEF Deals
<1>4. \A q \in PlacesOf(c) : EventAt(q).kind = k => q[2] # 0
  BY <1>2, EventFacts
<1>5. Latest(c, k)' <=>
         \E p \in PlacesOf(c) :
            /\ EventAt(p).kind = k /\ Done(p)'
            /\ \A q \in PlacesOf(c) : q[2] # 0 /\ Done(q)' => Nth(q) <= Nth(p)
  BY <1>1 DEF Latest
<1> QED
  BY <1>3, <1>4, <1>5 DEF Latest

\* ... and otherwise it is the event.
LEMMA LatestIs ==
  ASSUME UNCHANGED program, NEW p, Handling(p), Deals({p}), p[2] # 0, NEW k,
         NEW d, d = Ctid(p)
  PROVE  Latest(d, k)' <=> EventAt(p).kind = k
<1> DEFINE c == Ctid(p)
<1>0. ProgramTypes /\ p \in Place /\ p \in PlacesOf(c) /\ Nth(p) \in Nat
  BY HandlingFacts
<1>1. /\ \A x : PlacesOf(x)' = PlacesOf(x)
      /\ \A q : EventAt(q)' = EventAt(q) /\ Nth(q)' = Nth(q) /\ Ctid(q)' = Ctid(q)
  BY SamePlaces
<1>2. \A q \in PlacesOf(c) : q \in Place
  BY <1>0, PlaceFacts
<1>3. \A q \in PlacesOf(c) :
         /\ Nth(q) \in Nat /\ (Done(q)' <=> Nth(q) < Nth(p) \/ q = p)
         /\ q = p \/ Nth(q) # Nth(p)
  <2> SUFFICES ASSUME NEW q \in PlacesOf(c)
               PROVE  /\ Nth(q) \in Nat /\ (Done(q)' <=> Nth(q) < Nth(p) \/ q = p)
                      /\ q = p \/ Nth(q) # Nth(p)
    OBVIOUS
  <2>1. Nth(q) \in Nat /\ (Done(q) <=> Nth(q) < Nth(p))
    BY HandlingFacts
  <2>2. Done(q)' <=> Done(q) \/ q = p
    BY <1>2 DEF Deals
  <2>3. q = p \/ Nth(q) # Nth(p)
    BY <1>0, NthDiffers
  <2> QED
    BY <2>1, <2>2, <2>3
<1>4. d = Ctid(p)
  OBVIOUS
<1>5. Latest(d, k)' <=>
         \E x \in PlacesOf(d) :
            /\ EventAt(x).kind = k /\ Done(x)'
            /\ \A q \in PlacesOf(d) : q[2] # 0 /\ Done(q)' => Nth(q) <= Nth(x)
  BY <1>1 DEF Latest
<1>6. Latest(d, k)' <=> EventAt(p).kind = k
  <2>1. ASSUME Latest(d, k)'
        PROVE  EventAt(p).kind = k
    <3>1. PICK x \in PlacesOf(d) :
              /\ EventAt(x).kind = k /\ Done(x)'
              /\ \A q \in PlacesOf(d) : q[2] # 0 /\ Done(q)' => Nth(q) <= Nth(x)
      BY <1>5, <2>1
    <3>2. Nth(p) <= Nth(x)
      BY <1>0, <1>3, <1>4, <3>1
    <3>3. x = p
      BY <1>0, <1>3, <1>4, <3>1, <3>2
    <3> QED
      BY <3>1, <3>3
  <2>2. ASSUME EventAt(p).kind = k
        PROVE  Latest(d, k)'
    <3>1. \A q \in PlacesOf(d) : q[2] # 0 /\ Done(q)' => Nth(q) <= Nth(p)
      BY <1>0, <1>3, <1>4
    <3>2. Done(p)' /\ p \in PlacesOf(d)
      BY <1>0, <1>3, <1>4
    <3> QED
      BY <1>5, <2>2, <3>1, <3>2
  <2> QED
    BY <2>1, <2>2
<1> QED
  BY <1>6

\* The middle layer has dealt with the event at p.
LEMMA HandlingDeals ==
  ASSUME NEW p, Handling(p), UNCHANGED program, got' = got, pc' = "scan"
  PROVE  Deals({p})
<1>1. Place' = Place /\ \A q : Nth(q)' = Nth(q) /\ Ctid(q)' = Ctid(q)
  BY SamePlaces
<1>2. p \in Place /\ p \in PlacesOf(Ctid(p)) /\ Nth(p) \in Nat /\ ProgramTypes
  BY HandlingFacts
<1>3. pc = "main" /\ event.ctid = Ctid(p) /\ got[Ctid(p)] = Nth(p) /\ got \in [Context -> Nat]
  BY HandlingFacts DEF Handling, ListTypes
<1>4. ASSUME NEW q \in Place
      PROVE  Done(q)' <=> Done(q) \/ q = p
  <2>1. /\ Ctid(q) \in Context /\ q \in PlacesOf(Ctid(q)) /\ Nth(q) \in Nat
    BY <1>2, PlaceFacts, NthFacts
  <2>2. Done(q)' <=> Nth(q) <= got[Ctid(q)]
    <3>1. Dealt(Ctid(q))' = got[Ctid(q)]
      BY <1>1 DEF Dealt
    <3> QED
      BY <1>1, <3>1 DEF Done
  <2>3. CASE Ctid(q) # Ctid(p)
    <3>1. Done(q) <=> Nth(q) <= got[Ctid(q)]
      BY <1>3, <2>3 DEF Done, Dealt
    <3> QED
      BY <2>2, <2>3, <3>1
  <2>4. CASE Ctid(q) = Ctid(p)
    <3>1. Done(q) <=> Nth(q) < Nth(p)
      BY <2>1, <2>4, HandlingFacts
    <3>2. q = p \/ Nth(q) # Nth(p)
      BY <1>2, <2>1, <2>4, NthDiffers
    <3>3. Done(q)' <=> Nth(q) <= Nth(p)
      BY <1>3, <2>2, <2>4
    <3> QED
      BY <1>2, <2>1, <3>1, <3>2, <3>3
  <2> QED
    BY <2>3, <2>4
<1> QED
  BY <1>2, <1>4 DEF Deals

LEMMA StillDeals ==
  ASSUME ProgramTypes, UNCHANGED program, \A c \in Context : Dealt(c)' = Dealt(c)
  PROVE  Deals({})
<1>1. \A q : Nth(q)' = Nth(q) /\ Ctid(q)' = Ctid(q)
  BY SamePlaces
<1>2. ASSUME NEW q \in Place
      PROVE  Done(q)' <=> Done(q)
  <2>1. PICK c \in Context : c = Ctid(q)
    BY PlaceFacts
  <2>2. Done(q) <=> Nth(q) <= Dealt(c)
    BY <2>1 DEF Done
  <2>3. Done(q)' <=> Nth(q) <= Dealt(c)'
    BY <1>1, <2>1 DEF Done
  <2> QED
    BY <2>2, <2>3
<1> QED
  BY <1>2 DEF Deals

\* The same has been done but for headers.
SameView ==
    /\ \A c \in Context :
          /\ Begun(c)' <=> Begun(c)
          /\ Exited(c)' <=> Exited(c)
          /\ Joined(c)' <=> Joined(c)
          /\ Created(c)' <=> Created(c)
          /\ \A k \in {"enter", "join"} : Latest(c, k)' <=> Latest(c, k)
    /\ Turn' = Turn

LEMMA EmptyView ==
  ASSUME ProgramTypes, UNCHANGED program, Turn' = Turn, NEW S, Deals(S),
         \A q \in S : EventAt(q).kind = "buffer"
  PROVE  SameView
<1>1. \A q \in S : q[2] = 0
  BY EventFacts DEF Deals
<1>2. ASSUME NEW c \in Context
      PROVE  /\ Begun(c)' <=> Begun(c)
             /\ Exited(c)' <=> Exited(c)
             /\ Joined(c)' <=> Joined(c)
             /\ Created(c)' <=> Created(c)
  <2>1. /\ ~Does(S, c, "start") /\ ~Does(S, c, "exit")
        /\ ~DoesTo(S, c, "join") /\ ~DoesTo(S, c, "create")
    BY DEF Does, DoesTo
  <2> QED
    BY <2>1, DealsMore
<1>3. ASSUME NEW c \in Context, NEW k \in {"enter", "join"}
      PROVE  Latest(c, k)' <=> Latest(c, k)
  BY <1>1, LatestSame
<1> QED
  BY <1>2, <1>3 DEF SameView

\* The graph agrees with the trace as before; ...
LEMMA BuiltStays ==
  ASSUME ProgramTypes, UNCHANGED program, SameView, NEW g, Built(g)
  PROVE  Built(g)'
<1>1. /\ \A d : Inside(g, d)' <=> Inside(g, d)
      /\ \A t : Type(g, t)' = Type(g, t) /\ \A c : activeTask(g, c)' = activeTask(g, c)
      /\ \A A, J : Fine(g, A, J)' <=> Fine(g, A, J)
  BY SameRules
<1>2. Gone' = Gone
  BY DEF Gone, SameView
<1>3. Alive' = Alive
  BY <1>2 DEF Alive, SameView
<1>4. PICK A, J : A = Alive /\ J = Gone
  OBVIOUS
<1>5. Fine(g, Alive, Gone)'
  <2>1. Fine(g, A, J)'
    BY <1>1, <1>4, BuiltFacts
  <2>2. Alive' = A /\ Gone' = J
    BY <1>2, <1>3, <1>4
  <2> QED
    BY <2>1, <2>2
<1>6. \A d, e \in plan.party : Rounds(g, d, Turn)' = Rounds(g, e, Turn)'
  <2>1. ASSUME NEW d
        PROVE  Rounds(g, d, Turn)' = Rounds(g, d, Turn)
    <3>1. EnterNums(d)' = EnterNums(d) /\ Turn' = Turn
      BY SamePlaces DEF SameView
    <3>2. Below(d, Turn)' = Below(d, Turn)
      BY <3>1 DEF Below
    <3>3. Awaiting(g, d)' <=> Awaiting(g, d)
      BY DEF Awaiting, Contexts, NoTask
    <3> QED
      BY <3>2, <3>3 DEF Rounds
  <2> QED
    BY <2>1, BuiltFacts DEF Even
<1>7. Agree(g)'
  <2>1. plan' = plan
    BY SamePlaces
  <2>2. /\ \A c \in Context \ {0} : (<<c, 0>> \in DOMAIN g.tasks) <=> Begun(c)'
        /\ g.exited = {c \in Context : Exited(c)'}
        /\ \A c \in Context : g.creators[c] = NoTask /\ Created(c)' => Begun(c)'
        /\ \A c \in Context : g.joins[c] # NoTask <=> Joined(c)' /\ ~Exited(c)'
    BY BuiltFacts DEF SameView
  <2>3. \A c \in Alive' \ {0} : Type(g, activeTask(g, c))' = "join" => Latest(c, "join")'
    <3> SUFFICES ASSUME NEW c \in Alive \ {0}, Type(g, activeTask(g, c))' = "join"
                 PROVE  Latest(c, "join")'
      BY <1>3
    <3>1. Type(g, activeTask(g, c)) = "join"
      BY DEF Type, activeTask
    <3>2. Latest(c, "join") /\ c \in Context
      BY <3>1, BuiltFacts
    <3> QED
      BY <3>2 DEF SameView
  <2>4. \A c \in Context : Inside(g, c)' <=> Latest(c, "enter")'
    BY <1>1, BuiltFacts DEF SameView
  <2> QED
    BY <1>6, <2>1, <2>2, <2>3, <2>4 DEF Agree, NoTask
<1> QED
  BY <1>5, <1>7 DEF Built, Fine

\* ... or as it has become.
LEMMA BecomesBuilt ==
  ASSUME NEW g, NEW h, NEW p, Handling(p), Built(g), Becomes(g, h, p), EventAt(p).kind # "buffer",
         UNCHANGED program, got' = got, pc' = "scan", list'.barrierNum = list.barrierNum
  PROVE  Built(h)'
<1>0. /\ ProgramTypes /\ p \in Place /\ p[2] # 0 /\ Deals({p})
  <2>1. ProgramTypes /\ p \in Place
    BY HandlingFacts
  <2>2. p[2] # 0
    BY <2>1, EventFacts
  <2> QED
    BY <2>1, <2>2, HandlingDeals
<1>1. PICK c \in Context : c = Ctid(p)
  BY HandlingFacts
<1>2. PICK k, o : k = EventAt(p).kind /\ o = EventAt(p).other
  OBVIOUS
<1>3. ASSUME NEW d \in Context
      PROVE  /\ Begun(d)' <=> Begun(d) \/ (k = "start" /\ d = c)
             /\ Exited(d)' <=> Exited(d) \/ (k = "exit" /\ d = c)
             /\ Joined(d)' <=> Joined(d) \/ (k = "join" /\ d = o)
             /\ Created(d)' <=> Created(d) \/ (k = "create" /\ d = o)
  <2>1. /\ Does({p}, d, "start") <=> k = "start" /\ d = c
        /\ Does({p}, d, "exit") <=> k = "exit" /\ d = c
        /\ DoesTo({p}, d, "join") <=> k = "join" /\ d = o
        /\ DoesTo({p}, d, "create") <=> k = "create" /\ d = o
    BY <1>1, <1>2 DEF Does, DoesTo
  <2>2. /\ Begun(d)' <=> Begun(d) \/ Does({p}, d, "start")
        /\ Exited(d)' <=> Exited(d) \/ Does({p}, d, "exit")
        /\ Joined(d)' <=> Joined(d) \/ DoesTo({p}, d, "join")
        /\ Created(d)' <=> Created(d) \/ DoesTo({p}, d, "create")
    BY <1>0, DealsMore
  <2> QED
    BY <2>1, <2>2
<1>4. PICK A, J : A = AfterAlive(p) /\ J = AfterGone(p)
  OBVIOUS
<1>5. Gone' = J
  <2>1. k = "exit" /\ Exited(c)' => ~Exited(c)
    BY <1>1, NotExited
  <2>2. \A d \in Context : d \in J <=> Exited(d)' /\ Joined(d)'
    <3> SUFFICES ASSUME NEW d \in Context PROVE d \in J <=> Exited(d)' /\ Joined(d)'
      OBVIOUS
    <3>1. d \in J <=> \/ Exited(d) /\ Joined(d)
                      \/ k = "exit" /\ d = c /\ Joined(d)
                      \/ k = "join" /\ d = o /\ Exited(d)
      BY <1>1, <1>2, <1>4 DEF AfterGone, Gone
    <3> QED
      BY <1>3, <3>1
  <2>3. J \subseteq Context
    BY <1>4 DEF AfterGone, Gone
  <2>4. Gone' = {d \in Context : Exited(d)' /\ Joined(d)'}
    BY DEF Gone
  <2> QED
    BY <2>2, <2>3, <2>4
<1>6. Alive' = A
  <2>1. Alive' = {d \in Context : d = 0 \/ Begun(d)'} \ J
    BY <1>5 DEF Alive
  <2>2. A = {d \in Context : d = 0 \/ Begun(d) \/ (k = "start" /\ d = c)} \ J
    BY <1>1, <1>2, <1>4 DEF AfterAlive
  <2> QED
    BY <1>3, <2>1, <2>2
<1>7. /\ \A d : Inside(h, d)' <=> Inside(h, d)
      /\ Fine(h, A, J)' <=> Fine(h, A, J)
  BY SameRules
<1>8. Fine(h, Alive, Gone)'
  <2>1. Fine(h, A, J)
    BY <1>4 DEF Becomes
  <2>2. Fine(h, A, J)'
    BY <1>7, <2>1
  <2> QED
    BY <1>5, <1>6, <2>2
<1>9. Tracks(g, h, p)
  BY DEF Becomes
<1>10. ASSUME NEW d \in Context
       PROVE  /\ Latest(d, "enter")' <=> IF d = c THEN k = "enter" ELSE Latest(d, "enter")
              /\ Latest(d, "join")' <=> IF d = c THEN k = "join" ELSE Latest(d, "join")
  <2>1. CASE d = c
    <3>1. \A l : Latest(d, l)' <=> EventAt(p).kind = l
      BY <1>0, <1>1, <2>1, LatestIs
    <3> QED
      BY <1>2, <2>1, <3>1
  <2>2. CASE d # c
    <3>1. \A q \in {p} : Ctid(q) # d \/ q[2] = 0
      BY <1>1, <2>2
    <3>2. \A l : l # "buffer" => (Latest(d, l)' <=> Latest(d, l))
      BY <1>0, <3>1, LatestSame
    <3> QED
      BY <2>2, <3>2
  <2> QED
    BY <2>1, <2>2
<1>11. ASSUME NEW d \in Context \ {0}
       PROVE  <<d, 0>> \in DOMAIN h.tasks <=> Begun(d)'
  <2>1. <<d, 0>> \in DOMAIN g.tasks <=> Begun(d)
    BY BuiltFacts
  <2>2. CASE d = c
    BY <1>1, <1>2, <1>3, <1>9, <2>2 DEF Tracks
  <2>3. CASE d # c
    <3>1. <<d, 0>> \in DOMAIN h.tasks <=> <<d, 0>> \in DOMAIN g.tasks
      BY <1>1, <1>9, <2>3 DEF Tracks, Sees
    <3> QED
      BY <1>3, <2>1, <2>3, <3>1
  <2> QED
    BY <2>2, <2>3
<1>12. h.exited = {d \in Context : Exited(d)'}
  <2>1. h.exited = IF k = "exit" THEN g.exited \cup {c} ELSE g.exited
    BY <1>1, <1>2, <1>9 DEF Tracks
  <2>2. g.exited = {d \in Context : Exited(d)}
    BY BuiltFacts
  <2> QED
    BY <1>3, <2>1, <2>2
<1>13. ASSUME NEW d \in Context, h.creators[d] = NoTask, Created(d)'
       PROVE  Begun(d)'
  <2>1. \/ g.creators[d] = NoTask /\ ~(k = "create" /\ d = o)
        \/ k = "start" /\ d = c
    BY <1>1, <1>2, <1>9, <1>13 DEF Tracks
  <2>2. g.creators[d] = NoTask /\ Created(d) => Begun(d)
    BY BuiltFacts
  <2> QED
    BY <1>3, <1>13, <2>1, <2>2
<1>14. ASSUME NEW d \in Context
       PROVE  h.joins[d] # NoTask <=> Joined(d)' /\ ~Exited(d)'
  <2>1. h.joins[d] # NoTask <=>
           /\ g.joins[d] # NoTask \/ (k = "join" /\ d = o /\ ~Exited(d))
           /\ ~(k = "exit" /\ d = c)
    BY <1>1, <1>2, <1>9 DEF Tracks
  <2>2. g.joins[d] # NoTask <=> Joined(d) /\ ~Exited(d)
    BY BuiltFacts
  <2> QED
    BY <1>3, <2>1, <2>2
<1>15. ASSUME NEW d \in A \ {0}, Type(h, activeTask(h, d)) = "join"
       PROVE  Latest(d, "join")'
  <2>1. d \in Context
    BY <1>4 DEF AfterAlive
  <2>2. CASE d = c
    <3>1. k = "join"
      BY <1>1, <1>2, <1>4, <1>9, <1>15, <2>2 DEF Tracks
    <3> QED
      BY <1>10, <2>1, <2>2, <3>1
  <2>3. CASE d # c
    <3>1. Type(h, activeTask(h, d)) = Type(g, activeTask(g, d))
      BY <1>1, <1>4, <1>9, <2>3 DEF Tracks, Sees
    <3>2. d \in Alive
      <4>1. d \notin J /\ (d = 0 \/ Begun(d) \/ (k = "start" /\ d = c))
        BY <1>1, <1>2, <1>4 DEF AfterAlive
      <4>2. d \notin Gone
        BY <1>4, <4>1 DEF AfterGone
      <4> QED
        BY <2>1, <2>3, <4>1, <4>2 DEF Alive
    <3>3. Latest(d, "join")
      BY <1>15, <3>1, <3>2, BuiltFacts
    <3> QED
      BY <1>10, <2>1, <2>3, <3>3
  <2> QED
    BY <2>2, <2>3
<1>16. ASSUME NEW d \in Context
       PROVE  Inside(h, d)' <=> Latest(d, "enter")'
  <2>1. CASE d = c
    BY <1>1, <1>2, <1>7, <1>9, <1>10, <2>1 DEF Tracks
  <2>2. CASE d # c
    <3>1. Inside(h, d) <=> Inside(g, d)
      BY <1>1, <1>9, <2>2 DEF Tracks, Sees
    <3>2. Inside(g, d) <=> Latest(d, "enter")
      BY BuiltFacts
    <3> QED
      BY <1>7, <1>10, <2>2, <3>1, <3>2
  <2> QED
    BY <2>1, <2>2
<1>17. \A d, e \in plan.party : Rounds(h, d, Turn)' = Rounds(h, e, Turn)'
  <2>1. PICK n : n = AfterTurn(p)
    OBVIOUS
  <2>2. Turn' = n
    <3>1. pc = "main" /\ event = EventAt(p) /\ ListTypes
      BY DEF Handling
    <3>2. Turn' = list.barrierNum
      BY DEF Turn
    <3>3. list.barrierNum \in Nat
      BY <3>1 DEF ListTypes
    <3>4. Turn = IF k \in {"enter", "leave"} THEN list.barrierNum - 1 ELSE list.barrierNum
      BY <1>2, <3>1 DEF Turn
    <3>5. n = IF k \in {"enter", "leave"} THEN Turn + 1 ELSE Turn
      BY <1>2, <2>1 DEF AfterTurn
    <3> QED
      BY <3>2, <3>3, <3>4, <3>5
  <2>3. ASSUME NEW d
        PROVE  Rounds(h, d, Turn)' = Rounds(h, d, n)
    <3>1. EnterNums(d)' = EnterNums(d)
      BY SamePlaces
    <3>2. Below(d, Turn)' = Below(d, n)
      BY <2>2, <3>1 DEF Below
    <3>3. Awaiting(h, d)' <=> Awaiting(h, d)
      BY DEF Awaiting, Contexts, NoTask
    <3> QED
      BY <3>2, <3>3 DEF Rounds
  <2>4. Even(h, n)
    BY <1>9, <2>1 DEF Tracks
  <2> QED
    BY <2>3, <2>4 DEF Even
<1>18. Agree(h)'
  <2>1. plan' = plan
    BY SamePlaces
  <2>2. \A d \in A \ {0} : Type(h, activeTask(h, d))' = "join" => Latest(d, "join")'
    <3> SUFFICES ASSUME NEW d \in A \ {0}, Type(h, activeTask(h, d))' = "join"
                 PROVE  Latest(d, "join")'
      OBVIOUS
    <3>1. Type(h, activeTask(h, d)) = "join"
      BY DEF Type, activeTask
    <3> QED
      BY <1>15, <3>1
  <2> QED
    BY <1>6, <1>11, <1>12, <1>13, <1>14, <1>16, <1>17, <2>1, <2>2 DEF Agree, NoTask
<1> QED
  BY <1>8, <1>18 DEF Built, Fine

\* getNextContechEvent goes on, or it returns the next event of a context.
GoesOn ==
    /\ got' = got /\ pc' \in {"scan", "read", "end", "aborted"}
    /\ list'.barrierNum = list.barrierNum
Returns(c) ==
    /\ c \in Context /\ event'.ctid = c /\ got' = [got EXCEPT ![c] = @ + 1]
    /\ pc' \in {"main", "aborted"}
    /\ list'.barrierNum = list.barrierNum + IF event'.kind \in {"enter", "leave"} THEN 1 ELSE 0
Goes == UNCHANGED program /\ pc # "main" /\ (GoesOn \/ \E c : Returns(c))

LEMMA CountingBarriers ==
  ASSUME ListTypes, NEW e, Ticketed(e), NEW l, l = Counting(list, e)
  PROVE  /\ DOMAIN l = ListFields
         /\ l.barrierNum = list.barrierNum + IF e.kind \in {"enter", "leave"} THEN 1 ELSE 0
<1>1. DOMAIN list = ListFields /\ list.barrierNum \in Nat
  BY DEF ListTypes
<1>2. CASE e.kind = "sync"
  <2>1. l = [list EXCEPT !.ticketNum = @ + 1]
    BY <1>2 DEF Counting
  <2> QED
    BY <1>1, <1>2, <2>1 DEF ListFields
<1>3. CASE e.kind # "sync"
  <2>1. l = [list EXCEPT !.barrierNum = @ + 1] /\ e.kind \in {"enter", "leave"}
    BY <1>3 DEF Counting, Ticketed
  <2> QED
    BY <1>1, <1>3, <2>1 DEF ListFields
<1> QED
  BY <1>2, <1>3

LEMMA ScanGoes ==
  ASSUME MiddleInv, Scan
  PROVE  Goes
<1>1. UNCHANGED program /\ pc = "scan" /\ ProgramTypes /\ ListTypes
  BY DEF Scan, MiddleInv
<1>2. DOMAIN list = ListFields /\ list.barrierNum \in Nat
  BY <1>1 DEF ListTypes
<1>3. CASE ScanEnds
  BY <1>1, <1>3 DEF ScanEnds, Goes, GoesOn
<1>4. CASE ScanEmpty
  <2>1. PICK c, rest, next : /\ c = list.eventQueueCurrent
                             /\ rest = Without(list.queuedEvents, c)
                             /\ next = IF After(list.queuedEvents, c) = None THEN Begin(rest)
                                       ELSE After(list.queuedEvents, c)
    OBVIOUS
  <2>2. /\ list' = [list EXCEPT !.queuedEvents = rest, !.eventQueueCurrent = next]
        /\ pc' = pc /\ got' = got
    BY <1>4, <2>1 DEF ScanEmpty
  <2>3. list'.barrierNum = list.barrierNum
    BY <1>2, <2>2 DEF ListFields
  <2> QED
    BY <1>1, <2>2, <2>3 DEF Goes, GoesOn
<1>5. ASSUME ~ScanIsOver, Queue # <<>>
      PROVE  Head(Queue) \in FileEvents
  <2>1. DOMAIN list.queuedEvents # {} => list.eventQueueCurrent \in DOMAIN list.queuedEvents
    BY <1>1 DEF ListTypes
  <2>2. list.eventQueueCurrent \in DOMAIN list.queuedEvents /\ IsQueues(list.queuedEvents)
    BY <1>1, <1>5, <2>1 DEF ScanIsOver, ListTypes
  <2>3. Queue \in Seq(FileEvents)
    BY <2>2 DEF Queue, IsQueues
  <2> QED
    BY <1>5, <2>3
<1>6. ASSUME NEW e \in FileEvents
      PROVE  e.ctid \in Context
  <2>1. PICK p \in Place : e = EventAt(p)
    BY DEF FileEvents
  <2>2. EventAt(p).ctid = Ctid(p)
    BY <1>1, EventFacts
  <2>3. Ctid(p) \in Context
    BY <1>1, PlaceFacts
  <2> QED
    BY <2>1, <2>2, <2>3
<1>7. ASSUME ~ScanIsOver, Queue # <<>>, ScanPlain(Head(Queue))
      PROVE  Goes
  <2>1. PICK e \in FileEvents : e = Head(Queue)
    BY <1>5, <1>7
  <2>2. PICK q : q = [list.queuedEvents EXCEPT ![list.eventQueueCurrent] = Tail(@)]
    OBVIOUS
  <2>3. ~Ticketed(e) /\ list' = [list EXCEPT !.queuedEvents = q] /\ Return(e)
    BY <1>7, <2>1, <2>2 DEF ScanPlain
  <2>4. list'.barrierNum = list.barrierNum + 0 /\ e.kind \notin {"enter", "leave"}
    BY <1>2, <2>3 DEF ListFields, Ticketed
  <2>5. Returns(e.ctid)
    BY <1>6, <2>3, <2>4 DEF Return, Returns
  <2> QED
    BY <1>1, <2>5 DEF Goes
<1>8. ASSUME ~ScanIsOver, Queue # <<>>, ScanTurn(Head(Queue))
      PROVE  Goes
  <2>1. PICK e \in FileEvents : e = Head(Queue)
    BY <1>5, <1>8
  <2>2. PICK l : l = Counting(list, e)
    OBVIOUS
  <2>3. PICK q, first : /\ q = [l.queuedEvents EXCEPT ![list.eventQueueCurrent] = Tail(@)]
                        /\ first = Begin(list.queuedEvents)
    OBVIOUS
  <2>4. /\ Ticketed(e) /\ Return(e)
        /\ list' = [l EXCEPT !.queuedEvents = q, !.eventQueueCurrent = first]
    BY <1>8, <2>1, <2>2, <2>3 DEF ScanTurn
  <2>5. /\ DOMAIN l = ListFields
        /\ l.barrierNum = list.barrierNum + IF e.kind \in {"enter", "leave"} THEN 1 ELSE 0
    BY <1>1, <2>2, <2>4, CountingBarriers
  <2>6. list'.barrierNum = l.barrierNum
    BY <2>4, <2>5 DEF ListFields
  <2>7. Returns(e.ctid)
    BY <1>6, <2>4, <2>5, <2>6 DEF Return, Returns
  <2> QED
    BY <1>1, <2>7 DEF Goes
<1>9. ASSUME ScanBlocked(Head(Queue))
      PROVE  Goes
  <2>1. PICK e, next, first, low :
            /\ e = Head(Queue) /\ next = After(list.queuedEvents, list.eventQueueCurrent)
            /\ first = Begin(list.queuedEvents)
            /\ low = IF e.kind = "sync" THEN Min({e.num, list.currMinTicket})
                     ELSE list.currMinTicket
    OBVIOUS
  <2>2. PICK new : new = IF e.kind # "sync" THEN list.minQueuedTicket
                         ELSE IF list.resetMinTicket THEN low ELSE 0
    OBVIOUS
  <2>3. /\ \/ list' = [list EXCEPT !.currMinTicket = low, !.eventQueueCurrent = next] /\ pc' = pc
           \/ /\ list' = [list EXCEPT !.currMinTicket = low, !.eventQueueCurrent = first,
                                      !.resetMinTicket = ~@, !.minQueuedTicket = new]
              /\ pc' = "read"
        /\ got' = got
    BY <1>9, <2>1, <2>2 DEF ScanBlocked
  <2>4. list'.barrierNum = list.barrierNum
    BY <1>2, <2>3 DEF ListFields
  <2> QED
    BY <1>1, <2>3, <2>4 DEF Goes, GoesOn
<1> QED
  BY <1>3, <1>4, <1>7, <1>8, <1>9 DEF Scan

LEMMA ReadGoes ==
  ASSUME MiddleInv, Read
  PROVE  Goes
<1>1. UNCHANGED program /\ pc = "read" /\ ProgramTypes /\ ListTypes /\ Reading
  BY DEF Read, MiddleInv, Scanned
<1>2. DOMAIN list = ListFields /\ list.barrierNum \in Nat
  BY <1>1 DEF ListTypes
<1>3. CASE Seek
  BY <1>1, <1>3 DEF Seek, Goes, GoesOn
<1>4. ASSUME NEW p \in Place, Dispatch(EventAt(p))
      PROVE  Goes
  <2>1. PICK e : e = EventAt(p) /\ e.ctid \in Context /\ e.kind \in Kinds
    <3>1. EventAt(p).ctid = Ctid(p) /\ EventAt(p).kind \in Kinds
      BY <1>1, EventFacts
    <3>2. Ctid(p) \in Context
      BY <1>1, PlaceFacts
    <3> QED
      BY <3>1, <3>2
  <2>2. CASE UNCHANGED <<skipSet, pc, event, got>> /\ list'.barrierNum = list.barrierNum
    BY <1>1, <2>2 DEF Goes, GoesOn
  <2>3. ASSUME NEW l, CallAgain(e, l), DOMAIN l = ListFields, l.barrierNum = list.barrierNum
        PROVE  Goes
    <3>1. /\ list' = [l EXCEPT !.currMinTicket = Never, !.recursive = TRUE]
          /\ pc' = "scan" /\ got' = got
      BY <2>3 DEF CallAgain
    <3>2. list'.barrierNum = list.barrierNum
      BY <2>3, <3>1 DEF ListFields
    <3> QED
      BY <1>1, <3>1, <3>2 DEF Goes, GoesOn
  <2>4. ASSUME Return(e),
               list'.barrierNum = list.barrierNum
                                  + IF e.kind \in {"enter", "leave"} THEN 1 ELSE 0
        PROVE  Goes
    <3>1. Returns(e.ctid)
      BY <2>1, <2>4 DEF Return, Returns
    <3> QED
      BY <1>1, <3>1 DEF Goes
  <2>5. CASE ReadTicketed(e)
    <3>1. Ticketed(e)
      BY <2>5 DEF ReadTicketed
    <3>2. CASE list' = Counting(list, e) /\ Return(e)
      BY <1>1, <2>4, <3>1, <3>2, CountingBarriers
    <3>3. CASE ~(e.num <= Counter(e))
      <4>1. PICK q : q = Put(list.queuedEvents, e.ctid, <<e>>)
        OBVIOUS
      <4>2. \E l : /\ CallAgain(e, l) /\ DOMAIN l = DOMAIN list
                   /\ l.queuedEvents = q /\ l.eventQueueCurrent = Begin(q)
                   /\ l.waitingEvents = list.waitingEvents
                   /\ l.ticketNum = list.ticketNum /\ l.barrierNum = list.barrierNum
        BY <1>2, <2>5, <3>3, <4>1, CallsAgain
      <4> QED
        BY <1>2, <2>3, <4>2
    <3>4. CASE e.num <= Counter(e)
      <4>1. e.num \in Nat /\ Counter(e) \in Nat
        BY <1>1, <2>1, <3>1, EventFacts DEF Ticketed, Counter, ListTypes
      <4>2. ~(e.num > Counter(e))
        BY <3>4, <4>1
      <4> QED
        BY <2>5, <3>2, <4>2 DEF ReadTicketed
    <3> QED
      BY <3>3, <3>4
  <2>6. CASE ReadStart(e)
    <3>0. e.kind \notin {"enter", "leave"}
      BY <2>6 DEF ReadStart
    <3>1. CASE list' = [list EXCEPT !.waitingEvents = Without(@, e.ctid)] /\ Return(e)
      <4>1. list'.barrierNum = list.barrierNum + 0
        BY <1>2, <3>1 DEF ListFields
      <4> QED
        BY <2>4, <3>0, <3>1, <4>1
    <3>2. CASE CallAgain(e, [list EXCEPT !.waitingEvents = Put(@, e.ctid, <<e>>)])
      <4>1. PICK l : l = [list EXCEPT !.waitingEvents = Put(@, e.ctid, <<e>>)]
        OBVIOUS
      <4>2. DOMAIN l = ListFields /\ l.barrierNum = list.barrierNum
        BY <1>2, <4>1 DEF ListFields
      <4> QED
        BY <2>3, <3>2, <4>1, <4>2
    <3> QED
      BY <2>6, <3>1, <3>2 DEF ReadStart
  <2>7. CASE ReadPlain(e)
    <3>1. e.kind \notin {"enter", "leave"} /\ list' = list /\ Return(e)
      BY <2>7 DEF ReadPlain, Ticketed
    <3>2. list'.barrierNum = list.barrierNum + 0
      BY <1>2, <3>1
    <3> QED
      BY <2>4, <3>1, <3>2
  <2>8. CASE /\ list' = [list EXCEPT !.queuedEvents[e.ctid] = Append(@, e)]
             /\ UNCHANGED <<skipSet, pc, event, got>>
    <3>1. list'.barrierNum = list.barrierNum
      BY <1>2, <2>8 DEF ListFields
    <3> QED
      BY <2>2, <2>8, <3>1
  <2>9. CASE /\ list' = [list EXCEPT !.waitingEvents[e.ctid] = Append(@, e)]
             /\ UNCHANGED <<skipSet, pc, event, got>>
    <3>1. list'.barrierNum = list.barrierNum
      BY <1>2, <2>9 DEF ListFields
    <3> QED
      BY <2>2, <2>9, <3>1
  <2> QED
    BY <1>4, <2>1, <2>5, <2>6, <2>7, <2>8, <2>9 DEF Dispatch
<1>5. CASE ReadHeader
  <2>1. PICK p : p = <<NextHeader, 0>>
    OBVIOUS
  <2>2. p \in Place
    <3>1. /\ ~InBuffer /\ Valid(NextHeader) /\ pos' = [buf |-> NextHeader, event |-> 1]
          /\ skipList' = [skipList EXCEPT ![file[NextHeader].ctid] = @ \ {NextHeader}]
      BY <1>5 DEF ReadHeader
    <3>2. Takes(<<NextHeader, 0>>)
      BY <1>1, <3>1, HeaderTakesNext
    <3> QED
      BY <2>1, <3>2 DEF Takes
  <2>3. Dispatch(EventAt(p))
    BY <1>5, <2>1 DEF ReadHeader
  <2> QED
    BY <1>4, <2>2, <2>3
<1>6. CASE ReadEvent
  <2>1. PICK p : p = <<pos.buf, pos.event>>
    OBVIOUS
  <2>2. Takes(p)
    BY <1>1, <1>6, <2>1, EventTakesNext DEF ReadEvent
  <2>3. Dispatch(EventAt(p))
    BY <1>6, <2>1 DEF ReadEvent
  <2> QED
    BY <1>4, <2>2, <2>3 DEF Takes
<1> QED
  BY <1>3, <1>5, <1>6 DEF Read

\* Then nothing more has been dealt with.
LEMMA GoesView ==
  ASSUME ProgramTypes, ListTypes, Goes, pc' # "aborted"
  PROVE  SameView
<1>1. UNCHANGED program /\ pc # "main" /\ got \in [Context -> Nat] /\ list.barrierNum \in Nat
  BY DEF Goes, ListTypes
<1>2. CASE GoesOn
  <2>1. pc' # "main" /\ got' = got /\ list'.barrierNum = list.barrierNum
    BY <1>2 DEF GoesOn
  <2> QED
    BY <1>1, <2>1, StillDeals, EmptyView DEF Dealt, Turn
<1>3. CASE \E c : Returns(c)
  <2>1. PICK c : Returns(c)
    BY <1>3
  <2>2. /\ c \in Context /\ event'.ctid = c /\ got' = [got EXCEPT ![c] = @ + 1] /\ pc' = "main"
        /\ list'.barrierNum =
              list.barrierNum + IF event'.kind \in {"enter", "leave"} THEN 1 ELSE 0
    BY <2>1 DEF Returns
  <2>3. ASSUME NEW d \in Context PROVE Dealt(d)' = Dealt(d)
    <3>1. CASE d = c
      <4>1. Dealt(d)' = got'[d] - 1 /\ Dealt(d) = got[d] /\ got'[d] = got[d] + 1
        BY <1>1, <2>2, <3>1 DEF Dealt
      <4> QED
        BY <1>1, <4>1
    <3>2. CASE d # c
      BY <1>1, <2>2, <3>2 DEF Dealt
    <3> QED
      BY <3>1, <3>2
  <2>4. Turn' = Turn
    BY <1>1, <2>2 DEF Turn
  <2> QED
    BY <1>1, <2>3, <2>4, StillDeals, EmptyView
<1> QED
  BY <1>2, <1>3 DEF Goes

\* At first there is the first task of the main thread.
LEMMA FirstFacts ==
  ASSUME NEW g, g = FirstGraph
  PROVE  /\ IsGraph(g) /\ DOMAIN g.tasks = {<<0, 0>>} /\ g.tasks[<<0, 0>>] = NewTask("basic_blocks")
         /\ \A c \in Context : /\ g.held[c] = IF c = 0 THEN {<<0, 0>>} ELSE {}
                               /\ g.creators[c] = NoTask /\ g.joins[c] = NoTask
         /\ g.queued = {} /\ g.exited = {} /\ \A a \in Addr : g.owner[a] = NoTask
         /\ g.entry = NoTask /\ DOMAIN g.exits = {} /\ Open(g) = {}
<1>1. /\ g.tasks = [t \in {<<0, 0>>} |-> NewTask("basic_blocks")]
      /\ g.held = [c \in Context |-> IF c = 0 THEN {<<0, 0>>} ELSE {}]
      /\ g.queued = {} /\ g.creators = [c \in Context |-> NoTask]
      /\ g.joins = [c \in Context |-> NoTask] /\ g.exited = {}
      /\ g.owner = [a \in Addr |-> NoTask] /\ g.entry = NoTask /\ g.exits = <<>>
      /\ g.failed = FALSE
  BY DEF FirstGraph
<1>2. g = [f \in GraphFields |-> g[f]]
  BY DEF FirstGraph, GraphFields
<1>3. <<0, 0>> \in TaskId
  BY EventQueueAssumption DEF TaskId
<1>4. NewTask("basic_blocks") \in [type : Types, pred : SUBSET TaskId, succ : SUBSET TaskId]
  BY DEF NewTask, Types
<1>5. g.tasks \in [DOMAIN g.tasks -> [type : Types, pred : SUBSET TaskId, succ : SUBSET TaskId]]
  BY <1>1, <1>4
<1>6. g.held \in [Context -> SUBSET DOMAIN g.tasks]
  BY <1>1
<1>7. g.creators \in [Context -> TaskId \cup {NoTask}] /\ g.joins \in [Context -> TaskId \cup {NoTask}]
      /\ g.owner \in [Addr -> TaskId \cup {NoTask}]
  BY <1>1
<1>8. g.exits \in Seq(TaskId) /\ DOMAIN g.exits = {}
  BY <1>1
<1>9. IsGraph(g)
  BY <1>1, <1>2, <1>3, <1>5, <1>6, <1>7, <1>8 DEF IsGraph
<1>10. Open(g) = {}
  BY <1>1, <1>8 DEF Open
<1> QED
  BY <1>1, <1>8, <1>9, <1>10

LEMMA FirstFine ==
  ASSUME NEW g, g = FirstGraph
  PROVE  Fine(g, {0}, {}) /\ (\A d : ~Awaiting(g, d)) /\ (\A d : ~Inside(g, d))
<1>1. 0 \in Context
  BY EventQueueAssumption
<1>2. /\ IsGraph(g) /\ DOMAIN g.tasks = {<<0, 0>>} /\ g.tasks[<<0, 0>>] = NewTask("basic_blocks")
      /\ \A c \in Context : /\ g.held[c] = IF c = 0 THEN {<<0, 0>>} ELSE {}
                            /\ g.creators[c] = NoTask /\ g.joins[c] = NoTask
      /\ g.queued = {} /\ \A a \in Addr : g.owner[a] = NoTask
      /\ g.entry = NoTask /\ DOMAIN g.exits = {} /\ Open(g) = {}
  BY FirstFacts
<1>3. Type(g, <<0, 0>>) = "basic_blocks"
  BY <1>2 DEF Type, NewTask
<1>4. Numbered(g)
  <2>1. \A t \in DOMAIN g.tasks : \A i \in 0 .. t[2] : <<t[1], i>> \in DOMAIN g.tasks
    BY <1>2
  <2>2. \A c \in Context : \A t \in g.held[c] : t[1] = c /\ t \notin g.queued
    BY <1>2
  <2>3. \A c \in Context : <<c, 0>> \in DOMAIN g.tasks => Type(g, <<c, 0>>) = "basic_blocks"
    BY <1>2, <1>3
  <2> QED
    BY <1>2, <2>1, <2>2, <2>3 DEF Numbered
<1>5. IsActive(g, 0, <<0, 0>>)
  BY <1>1, <1>2 DEF IsActive
<1>6. Actives(g, {0})
  BY <1>1, <1>2, <1>5 DEF Actives
<1>7. Barriers(g)
  BY <1>2, <1>3 DEF Barriers
<1>8. Sound(g, {})
  <2>1. Joins(g) /\ Joinings(g, {})
    BY <1>2 DEF Joins, Joinings
  <2>2. Creators(g)
    BY <1>2 DEF Creators
  <2> QED
    BY <1>7, <2>1, <2>2 DEF Sound
<1>9. activeTask(g, 0) = <<0, 0>>
  BY <1>1, <1>2, <1>4, <1>5, <1>7, ActiveIs
<1>10. \A d : ~Inside(g, d)
  BY <1>2 DEF Inside
<1>11. Settled(g, {0})
  BY <1>3, <1>9, <1>10 DEF Settled
<1>12. Owners(g)
  BY <1>2 DEF Owners
<1>13. \A d : ~Awaiting(g, d)
  BY <1>2 DEF Awaiting
<1> QED
  BY <1>2, <1>4, <1>6, <1>8, <1>10, <1>11, <1>12, <1>13 DEF Fine, GraphOK

LEMMA FirstBuilt ==
  ASSUME NEW g, g = FirstGraph, ProgramTypes, Recorded, BeforeScan, pc = "program"
  PROVE  Built(g)
<1>1. ASSUME NEW p \in Place PROVE ~Done(p)
  <2>1. Ctid(p) \in Context /\ p \in PlacesOf(Ctid(p))
    BY PlaceFacts
  <2>2. Nth(p) \in Nat /\ Nth(p) > 0
    BY <2>1, NthFacts
  <2>3. Dealt(Ctid(p)) = 0
    BY <2>1 DEF Dealt, BeforeScan
  <2> QED
    BY <2>2, <2>3 DEF Done
<1>2. \A c : \A p \in PlacesOf(c) : p \in Place
  BY PlaceFacts
<1>3. ASSUME NEW c
      PROVE  /\ ~Begun(c) /\ ~Exited(c) /\ ~Joined(c) /\ ~Created(c)
             /\ \A k : ~Latest(c, k)
  BY <1>1, <1>2 DEF Begun, Exited, Joined, Created, Latest, Done
<1>4. Gone = {} /\ Alive = {0}
  BY <1>3, EventQueueAssumption DEF Gone, Alive
<1>5. Fine(g, {0}, {}) /\ (\A d : ~Awaiting(g, d)) /\ (\A d : ~Inside(g, d))
  BY FirstFine
<1>6. /\ DOMAIN g.tasks = {<<0, 0>>} /\ g.tasks[<<0, 0>>] = NewTask("basic_blocks")
      /\ g.exited = {} /\ \A c \in Context : g.joins[c] = NoTask
  BY FirstFacts
<1>7. Turn = 0
  BY DEF Turn, BeforeScan
<1>8. ASSUME NEW d PROVE Rounds(g, d, Turn) = 0
  <2>1. EnterNums(d) \subseteq Nat
    BY NumsDrawn
  <2>2. Below(d, 0) = {}
    BY <2>1 DEF Below
  <2>3. Cardinality({}) = 0
    BY FS_EmptySet
  <2> QED
    BY <1>5, <1>7, <2>2, <2>3 DEF Rounds
<1>9. Agree(g)
  BY <1>3, <1>4, <1>5, <1>6, <1>8 DEF Agree
<1> QED
  BY <1>4, <1>5, <1>9 DEF Built, Fine

\* What remains of it when the layer stops, ...
LEMMA FinalSame ==
  ASSUME NEW g, IsGraph(g), \A c \in Context : \A t \in g.held[c] : t[1] = c, plan' = plan,
         pc' # "done" \/ Delivered' =>
             \A b \in g.queued : Type(g, b) = "barrier" => Whole(g, b)
  PROVE  Final(g)'
<1>1. IsGraph(g)'
  BY DEF IsGraph, GraphFields, Types, TaskId, NoTask
<1>2. \A b : Type(g, b)' = Type(g, b) /\ (Whole(g, b)' <=> Whole(g, b))
  BY DEF Type, Whole, OnePer, Contexts
<1> QED
  BY <1>1, <1>2 DEF Final

LEMMA BuiltFinal ==
  ASSUME NEW g, Built(g), UNCHANGED program, pc' = "aborted"
  PROVE  Final(g)'
<1>1. IsGraph(g) /\ Numbered(g) /\ Barriers(g)
  BY BuiltFacts
<1>2. ASSUME NEW b \in g.queued, Type(g, b) = "barrier"
      PROVE  Whole(g, b)
  <2>1. b \in DOMAIN g.tasks
    BY <1>1 DEF IsGraph
  <2>2. b \notin Open(g)
    BY <1>1 DEF Barriers, OpenOK
  <2> QED
    BY <1>1, <1>2, <2>1, <2>2 DEF Barriers
<1>3. plan' = plan
  BY SamePlaces
<1>4. \A c \in Context : \A t \in g.held[c] : t[1] = c
  BY <1>1 DEF Numbered
<1> QED
  BY <1>1, <1>2, <1>3, <1>4, FinalSame

\* ... and when it has come to the end of the trace: whoever has entered has left.
LEMMA AllOut ==
  ASSUME ProgramTypes, Recorded, Chunks, pc # "main", Delivered, NEW c \in Context
  PROVE  ~Latest(c, "enter")
<1> SUFFICES ASSUME Latest(c, "enter") PROVE FALSE
  OBVIOUS
<1>1. PICK p \in PlacesOf(c) :
         /\ EventAt(p).kind = "enter"
         /\ \A q \in PlacesOf(c) : q[2] # 0 /\ Done(q) => Nth(q) <= Nth(p)
  BY DEF Latest
<1>2. p \in Place /\ Ctid(p) = c
  BY PlaceFacts
<1>3. PICK q : q = <<p[1], p[2] + 1>>
  OBVIOUS
<1>4. q \in PlacesOf(c)
  BY <1>1, <1>2, <1>3, ScriptFacts DEF Scripted
<1>5. p[2] \in Nat /\ Nth(p) < Nth(q) /\ Nth(p) \in Nat /\ Nth(q) \in Nat
  <2>1. p[2] \in Nat /\ p[1] \in Nat
    BY <1>4, NthOrder
  <2>2. q[1] = p[1] /\ q[2] = p[2] + 1
    BY <1>3
  <2> QED
    BY <1>4, <2>1, <2>2, NthOrder
<1>6. Done(q)
  <2>1. Ctid(q) = c
    BY <1>4, PlaceFacts
  <2>2. Dealt(c) = Cardinality(PlacesOf(c))
    BY DEF Dealt, Delivered
  <2>3. Nth(q) <= Cardinality(PlacesOf(c))
    <3>1. Upto(q) \subseteq PlacesOf(c) /\ Nth(q) = Cardinality(Upto(q))
      BY <1>4, NthFacts
    <3>2. IsFiniteSet(PlacesOf(c))
      BY PlacesFinite
    <3> QED
      BY <3>1, <3>2, FS_Subset
  <2> QED
    BY <2>1, <2>2, <2>3 DEF Done
<1>7. q[2] # 0
  BY <1>3, <1>5
<1> QED
  BY <1>1, <1>4, <1>5, <1>6, <1>7

LEMMA AllWhole ==
  ASSUME NEW g, ProgramTypes, Recorded, Chunks, Built(g), pc # "main", Delivered,
         NEW b \in DOMAIN g.tasks, Type(g, b) = "barrier"
  PROVE  Whole(g, b)
<1>1. Barriers(g) /\ \A c \in Context : Inside(g, c) <=> Latest(c, "enter")
  BY BuiltFacts
<1>2. CASE b \in Open(g)
  <2>1. OpenOK(g, b)
    BY <1>1, <1>2 DEF Barriers
  <2>2. PICK c \in Contexts(g.tasks[b].pred) : c \notin Contexts(g.tasks[b].succ)
    BY <2>1 DEF OpenOK
  <2>3. c \in Context
    BY <2>1, PartyFacts DEF OpenOK
  <2>4. Inside(g, c)
    BY <1>2, <2>2 DEF Inside, Within
  <2> QED
    BY <1>1, <2>3, <2>4, AllOut
<1> QED
  BY <1>1, <1>2 DEF Barriers

\* The last tasks are released.
Finished(g) ==
    [Check(g, g.queued \cap UNION Range(g.held) = {}) EXCEPT
        !.queued = @ \cup UNION Range(g.held), !.held = [c \in Context |-> {}]]

LEMMA FinishIs ==
  ASSUME NEW g, IsGraph(g), Numbered(g), NEW h, h = Finished(g)
  PROVE  /\ IsGraph(h) /\ h.tasks = g.tasks /\ g.queued \subseteq h.queued
         /\ h.exited = g.exited
         /\ \A c \in Context : h.held[c] = {}
<1>1. PICK rest : rest = UNION Range(g.held)
  OBVIOUS
<1>2. ASSUME NEW t \in rest
      PROVE  t \in DOMAIN g.tasks /\ t \notin g.queued
  <2>1. g.held \in [Context -> SUBSET DOMAIN g.tasks]
    BY DEF IsGraph
  <2>2. PICK c \in Context : t \in g.held[c]
    BY <1>1, <2>1 DEF Range
  <2> QED
    BY <2>1, <2>2 DEF Numbered
<1>3. g.queued \cap rest = {}
  BY <1>2
<1>4. Check(g, g.queued \cap rest = {}) = g
  BY <1>3, CheckIs
<1>5. PICK q, n : q = g.queued \cup rest /\ n = [c \in Context |-> {}]
  OBVIOUS
<1>6. h = [g EXCEPT !.queued = q, !.held = n]
  BY <1>1, <1>4, <1>5 DEF Finished
<1>7. g = [f \in GraphFields |-> g[f]]
  BY DEF IsGraph
<1>8. /\ h = [f \in GraphFields |-> h[f]] /\ h.tasks = g.tasks /\ h.queued = q /\ h.held = n
      /\ h.creators = g.creators /\ h.joins = g.joins /\ h.exited = g.exited
      /\ h.owner = g.owner /\ h.entry = g.entry /\ h.exits = g.exits /\ h.failed = g.failed
  BY <1>6, <1>7 DEF GraphFields
<1>9. q \subseteq DOMAIN g.tasks
  BY <1>2, <1>5 DEF IsGraph
<1>10. n \in [Context -> SUBSET DOMAIN g.tasks] /\ \A c \in Context : n[c] = {}
  BY <1>5
<1>11. IsGraph(h)
  BY <1>8, <1>9, <1>10 DEF IsGraph
<1> QED
  BY <1>5, <1>8, <1>10, <1>11

\* The event that the middle layer deals with has a place.
LEMMA HandlingIs ==
  ASSUME MiddleInv, Story, pc = "main"
  PROVE  \E p : Handling(p)
<1>1. PICK p \in PlacesOf(event.ctid) : event = EventAt(p) /\ Nth(p) = got[event.ctid]
  BY DEF MiddleInv, ProgramOrder
<1>2. p \in Place /\ Ctid(p) = event.ctid
  BY PlaceFacts DEF MiddleInv
<1> QED
  BY <1>1, <1>2 DEF MiddleInv, Scanned, Handling

LEMMA ConsumeIs ==
  ASSUME ListTypes, Consume
  PROVE  /\ UNCHANGED program /\ pc = "main" /\ pc' = "scan" /\ got' = got
         /\ list'.barrierNum = list.barrierNum
<1>1. DOMAIN list = ListFields
  BY DEF ListTypes
<1>2. UNCHANGED program /\ pc = "main" /\ pc' = "scan" /\ got' = got
  BY DEF Consume
<1>3. CASE list' = [list EXCEPT !.currMinTicket = Never, !.recursive = FALSE]
  BY <1>1, <1>2, <1>3 DEF ListFields
<1>4. CASE readyEvents(event.other)
  <2>1. CASE list' = [list EXCEPT !.waitingEvents = Put(@, event.other, <<>>),
                                  !.currMinTicket = Never, !.recursive = FALSE]
    <3>1. PICK w : w = Put(list.waitingEvents, event.other, <<>>)
      OBVIOUS
    <3>2. list' = [list EXCEPT !.waitingEvents = w, !.currMinTicket = Never, !.recursive = FALSE]
      BY <2>1, <3>1
    <3> QED
      BY <1>1, <1>2, <3>2 DEF ListFields
  <2>2. CASE event.other \in DOMAIN list.waitingEvents
    <3>1. PICK q, first, w :
             /\ q = Put(list.queuedEvents, event.other, list.waitingEvents[event.other])
             /\ first = Begin(q) /\ w = Without(list.waitingEvents, event.other)
      OBVIOUS
    <3>2. list' = [list EXCEPT !.queuedEvents = q, !.eventQueueCurrent = first,
                               !.waitingEvents = w, !.currMinTicket = Never, !.recursive = FALSE]
      BY <1>4, <2>2, <3>1 DEF readyEvents
    <3> QED
      BY <1>1, <1>2, <3>2 DEF ListFields
  <2> QED
    BY <1>4, <2>1, <2>2 DEF readyEvents
<1> QED
  BY <1>3, <1>4 DEF Consume

LEMMA HandleBuilt ==
  ASSUME MiddleInv, Story, NEW g, NEW h, Built(g), Consume, h = Handled(g, event), ~ReturnsAfterJoin
  PROVE  Built(h)' /\ Frozen(g, h)
<1>1. /\ UNCHANGED program /\ pc = "main" /\ pc' = "scan" /\ got' = got
      /\ list'.barrierNum = list.barrierNum /\ ProgramTypes /\ ListTypes
  BY ConsumeIs DEF MiddleInv
<1>2. PICK p : Handling(p)
  BY <1>1, HandlingIs
<1>3. event = EventAt(p) /\ event.kind = EventAt(p).kind
  BY <1>2 DEF Handling
<1>4. CASE EventAt(p).kind = "buffer"
  <2>1. h = g
    BY <1>3, <1>4 DEF Handled
  <2>2. Deals({p})
    BY <1>1, <1>2, HandlingDeals
  <2>3. Turn' = Turn
    BY <1>1, <1>3, <1>4 DEF Turn
  <2>4. SameView
    BY <1>1, <1>4, <2>2, <2>3, EmptyView
  <2>5. Built(g)'
    BY <1>1, <2>4, BuiltStays
  <2> QED
    BY <2>1, <2>5 DEF Frozen
<1>5. CASE EventAt(p).kind # "buffer"
  <2>1. Becomes(g, h, p)
    BY <1>2, <1>3, <1>5, HandledBecomes
  <2>2. Built(h)'
    BY <1>1, <1>2, <1>5, <2>1, BecomesBuilt
  <2> QED
    BY <2>1, <2>2 DEF Becomes, Tracks, Sees
<1> QED
  BY <1>4, <1>5

LEMMA GoesBuilt ==
  ASSUME MiddleInv, Goes, NEW g, Built(g)
  PROVE  IF pc' = "aborted" THEN Final(g)' ELSE Built(g)'
<1>1. UNCHANGED program /\ ProgramTypes /\ ListTypes
  BY DEF Goes, MiddleInv
<1>2. CASE pc' = "aborted"
  BY <1>1, <1>2, BuiltFinal
<1>3. CASE pc' # "aborted"
  BY <1>1, <1>3, GoesView, BuiltStays
<1> QED
  BY <1>2, <1>3

LEMMA FinishFinal ==
  ASSUME MiddleInv, Story, Finish, NEW g, NEW h, g = graph, h = Finished(g), Built(g)
  PROVE  Final(h)' /\ Frozen(g, h)
<1>1. UNCHANGED program /\ pc = "end" /\ pc' = "done" /\ got' = got /\ ProgramTypes /\ Recorded /\ Chunks
  BY DEF Finish, MiddleInv, Story
<1>2. IsGraph(g) /\ Numbered(g)
  BY BuiltFacts
<1>3. /\ IsGraph(h) /\ h.tasks = g.tasks /\ g.queued \subseteq h.queued
      /\ \A c \in Context : h.held[c] = {}
  BY <1>2, FinishIs
<1>4. ASSUME Delivered', NEW b \in h.queued, Type(h, b) = "barrier"
      PROVE  Whole(h, b)
  <2>1. Delivered
    BY <1>1, <1>4, SamePlaces DEF Delivered
  <2>2. b \in DOMAIN g.tasks /\ Type(g, b) = "barrier"
    BY <1>3, <1>4 DEF IsGraph, Type
  <2>3. Whole(g, b)
    BY <1>1, <2>1, <2>2, AllWhole
  <2> QED
    BY <1>3, <2>3 DEF Whole
<1>5. plan' = plan
  BY <1>1, SamePlaces
<1>6. Final(h)'
  BY <1>1, <1>3, <1>4, <1>5, FinalSame
<1> QED
  BY <1>3, <1>6 DEF Frozen

LEMMA BeginBuilt ==
  ASSUME ProgramTypes, Recorded, ListTypes, BeforeScan, BeginMiddle, NEW g, g = FirstGraph
  PROVE  Built(g)'
<1>1. UNCHANGED program /\ pc = "program" /\ pc' = "scan" /\ got' = got /\ list' = list
  BY DEF BeginMiddle
<1>2. Built(g)
  BY <1>1, FirstBuilt
<1>3. SameView
  BY <1>1, StillDeals, EmptyView DEF Dealt, Turn
<1> QED
  BY <1>1, <1>2, <1>3, BuiltStays

LEMMA GraphInit == MiddleInit => GraphInv
<1> SUFFICES ASSUME MiddleInit PROVE GraphInv
  OBVIOUS
<1>1. Story
  BY StoryInit
<1>2. pc = "program" /\ graph = FirstGraph
  BY DEF MiddleInit, Init
<1> QED
  BY <1>1, <1>2 DEF GraphInv

LEMMA GraphStays ==
  ASSUME QueueInv, GraphInv, UNCHANGED mvars
  PROVE  GraphInv'
<1>1. /\ UNCHANGED program /\ pc' = pc /\ event' = event /\ got' = got /\ list' = list
      /\ graph' = graph
  BY DEF mvars, vars
<1>2. ProgramTypes /\ ListTypes /\ Story /\ Story'
  BY <1>1, SameStory DEF QueueInv, GraphInv
<1>3. PICK g : g = graph
  OBVIOUS
<1>4. CASE pc = "program"
  BY <1>1, <1>2, <1>4 DEF GraphInv, FirstGraph, NewTask, NoTask
<1>5. CASE pc \in {"scan", "read", "main", "end"}
  <2>1. Built(g)
    BY <1>3, <1>5 DEF GraphInv
  <2>2. SameView
    BY <1>1, <1>2, StillDeals, EmptyView DEF Dealt, Turn
  <2>3. Built(g)'
    BY <1>1, <1>2, <2>1, <2>2, BuiltStays
  <2>4. Built(graph)'
    BY <1>1, <1>3, <2>3
  <2> QED
    BY <1>1, <1>2, <1>5, <2>4 DEF GraphInv
<1>6. CASE pc \in {"aborted", "done"}
  <2>1. Final(g)
    BY <1>3, <1>6 DEF GraphInv
  <2>2. Delivered' <=> Delivered
    BY <1>1, SamePlaces DEF Delivered
  <2>3. plan' = plan
    BY <1>1, SamePlaces
  <2>4. Final(g)'
    BY <1>1, <2>1, <2>2, <2>3, FinalSame DEF Final
  <2>5. Final(graph)'
    BY <1>1, <1>3, <2>4
  <2> QED
    BY <1>1, <1>2, <1>6, <2>5 DEF GraphInv
<1>7. pc \in Steps \cup {"program"}
  BY DEF QueueInv
<1> QED
  BY <1>4, <1>5, <1>6, <1>7 DEF Steps

\* Every step keeps the invariant, and does not change what was released.
LEMMA GraphStep ==
  ASSUME QueueInv, GraphInv, [MiddleNext]_mvars, ~ReturnsAfterJoin
  PROVE  GraphInv' /\ Frozen(graph, graph')
<1>1. ProgramTypes /\ ListTypes /\ Recorded /\ Story
  BY DEF QueueInv, GraphInv
<1>2. pc # "program" => MiddleInv
  BY DEF QueueInv, MiddleInv
<1>3. PICK g, h : g = graph /\ h = graph'
  OBVIOUS
<1>4. g = h => Frozen(graph, graph')
  BY <1>3 DEF Frozen
<1>5. CASE UNCHANGED mvars
  BY <1>3, <1>4, <1>5, GraphStays DEF mvars
<1>6. CASE Program /\ UNCHANGED graph
  <2>1. pc = "program" /\ pc' = pc /\ graph' = graph
    BY <1>6 DEF Program
  <2>2. Story'
    BY <1>1, <1>6, StoryProgram
  <2>3. graph = FirstGraph
    BY <2>1 DEF GraphInv
  <2>4. GraphInv'
    BY <2>1, <2>2, <2>3 DEF GraphInv, FirstGraph, NewTask, NoTask
  <2> QED
    BY <1>3, <1>4, <2>1, <2>4
<1>7. CASE BeginMiddle /\ UNCHANGED graph
  <2>1. pc = "program" /\ pc' = "scan" /\ graph' = graph /\ UNCHANGED program
    BY <1>7 DEF BeginMiddle
  <2>2. BeforeScan /\ g = FirstGraph
    BY <1>3, <2>1 DEF QueueInv, GraphInv, Steps
  <2>3. Built(g)'
    BY <1>1, <1>7, <2>2, BeginBuilt
  <2>4. Built(graph)'
    BY <1>3, <2>1, <2>3
  <2>5. Story'
    BY <1>1, <2>1, SameStory
  <2> QED
    BY <1>3, <1>4, <2>1, <2>4, <2>5 DEF GraphInv
<1>8. CASE (Scan \/ Read) /\ UNCHANGED graph
  <2>1. pc \in {"scan", "read"} /\ graph' = graph
    BY <1>8 DEF Scan, Read
  <2>2. MiddleInv /\ Goes /\ Built(g)
    BY <1>2, <1>3, <1>8, <2>1, ScanGoes, ReadGoes DEF GraphInv
  <2>3. IF pc' = "aborted" THEN Final(g)' ELSE Built(g)'
    BY <2>2, GoesBuilt
  <2>4. IF pc' = "aborted" THEN Final(graph)' ELSE Built(graph)'
    BY <1>3, <2>1, <2>3
  <2>5. Story' /\ pc' \in {"scan", "read", "end", "aborted", "main"}
    BY <1>1, <2>2, SameStory DEF Goes, GoesOn, Returns
  <2> QED
    BY <1>3, <1>4, <2>1, <2>4, <2>5 DEF GraphInv
<1>9. CASE Handle
  <2>1. Consume /\ h = Handled(g, event)
    BY <1>3, <1>9 DEF Handle
  <2>2. UNCHANGED program /\ pc = "main" /\ pc' = "scan"
    BY <1>1, <2>1, ConsumeIs
  <2>3. MiddleInv /\ Built(g)
    BY <1>2, <1>3, <2>2 DEF GraphInv
  <2>4. Built(h)' /\ Frozen(g, h)
    BY <1>1, <2>1, <2>3, HandleBuilt
  <2>5. Built(graph)'
    BY <1>3, <2>4
  <2>6. Story'
    BY <1>1, <2>2, SameStory
  <2> QED
    BY <1>3, <2>2, <2>4, <2>5, <2>6 DEF GraphInv
<1>10. CASE Finish
  <2>1. h = Finished(g) /\ pc = "end" /\ pc' = "done" /\ UNCHANGED program
    BY <1>3, <1>10 DEF Finish, Finished
  <2>2. MiddleInv /\ Built(g)
    BY <1>2, <1>3, <2>1 DEF GraphInv
  <2>3. Final(h)' /\ Frozen(g, h)
    BY <1>1, <1>3, <1>10, <2>1, <2>2, FinishFinal
  <2>4. Final(graph)'
    BY <1>3, <2>3
  <2>5. Story'
    BY <1>1, <2>1, SameStory
  <2> QED
    BY <1>3, <2>1, <2>3, <2>4, <2>5 DEF GraphInv
<1> QED
  BY <1>5, <1>6, <1>7, <1>8, <1>9, <1>10 DEF MiddleNext, Middle

-----------------------------------------------------------------------------
(***************************************************************************)
(* What the invariant says.                                                *)
(***************************************************************************)
LEMMA GraphIs ==
  ASSUME QueueInv, GraphInv
  PROVE  IsGraph(graph) /\ \A c \in Context : \A t \in graph.held[c] : t[1] = c
<1>1. PICK g : g = graph
  OBVIOUS
<1>2. CASE pc = "program"
  <2>1. g = FirstGraph
    BY <1>1, <1>2 DEF GraphInv
  <2>2. IsGraph(g) /\ \A c \in Context : g.held[c] = IF c = 0 THEN {<<0, 0>>} ELSE {}
    BY <2>1, FirstFacts
  <2> QED
    BY <1>1, <2>2
<1>3. CASE pc \in {"scan", "read", "main", "end"}
  <2>1. Built(g)
    BY <1>1, <1>3 DEF GraphInv
  <2>2. IsGraph(g) /\ Numbered(g)
    BY <2>1, BuiltFacts
  <2> QED
    BY <1>1, <2>2 DEF Numbered
<1>4. CASE pc \in {"aborted", "done"}
  BY <1>4 DEF GraphInv, Final
<1> QED
  BY <1>2, <1>3, <1>4 DEF QueueInv, Steps

LEMMA GraphTypes == QueueInv /\ GraphInv => MiddleTypeOK
<1> SUFFICES ASSUME QueueInv, GraphInv PROVE MiddleTypeOK
  OBVIOUS
<1>1. IsGraph(graph) /\ \A c \in Context : \A t \in graph.held[c] : t[1] = c
  BY GraphIs
<1>2. graph.held \in [Context -> SUBSET DOMAIN graph.tasks]
  BY <1>1 DEF IsGraph
<1>3. \A c \in Context : graph.held[c] \subseteq {t \in DOMAIN graph.tasks : t[1] = c}
  BY <1>1, <1>2
<1> QED
  BY <1>1, <1>3 DEF IsGraph, MiddleTypeOK, Types

LEMMA GraphAsserts == QueueInv /\ GraphInv => AssertsHold
  BY GraphIs DEF IsGraph, AssertsHold

LEMMA ReleasedWhole ==
  ASSUME QueueInv, GraphInv, pc = "done" => Delivered,
         NEW b \in graph.queued, Type(graph, b) = "barrier"
  PROVE  Whole(graph, b)
<1>1. PICK g : g = graph
  OBVIOUS
<1>2. CASE pc = "program"
  BY <1>1, <1>2, FirstFacts DEF GraphInv
<1>3. CASE pc \in {"scan", "read", "main", "end"}
  <2>1. Built(g)
    BY <1>1, <1>3 DEF GraphInv
  <2>2. IsGraph(g) /\ Barriers(g)
    BY <2>1, BuiltFacts
  <2>3. b \in DOMAIN g.tasks /\ b \in g.queued
    BY <1>1, <2>2 DEF IsGraph
  <2>4. b \notin Open(g)
    BY <2>2, <2>3 DEF Barriers, OpenOK
  <2>5. Whole(g, b)
    BY <1>1, <2>2, <2>3, <2>4 DEF Barriers
  <2> QED
    BY <1>1, <2>5
<1>4. CASE pc \in {"aborted", "done"}
  BY <1>4 DEF GraphInv, Final
<1> QED
  BY <1>2, <1>3, <1>4 DEF QueueInv, Steps

LEMMA GraphBarriers == QueueInv /\ GraphInv => BarrierSeparates
<1> SUFFICES ASSUME QueueInv, GraphInv, NEW b \in graph.queued, Type(graph, b) = "barrier",
                    pc = "done" => Delivered, NEW ts \in {graph.tasks[b].pred, graph.tasks[b].succ}
             PROVE  Contexts(ts) = plan.party /\ Cardinality(ts) = Cardinality(plan.party)
  BY DEF BarrierSeparates
<1>1. OnePer(ts) /\ Contexts(ts) = plan.party
  BY ReleasedWhole DEF Whole
<1> QED
  BY <1>1, OnePerCard

\* The last task of a context is the one without a next.
LEMMA LastTaskIs ==
  ASSUME NEW g, IsGraph(g), Numbered(g), NEW c, NEW t \in DOMAIN g.tasks, t[1] = c,
         getNext(t) \notin DOMAIN g.tasks
  PROVE  LastTask(g, c) = t
<1>1. t = <<c, t[2]>> /\ t[2] \in Nat /\ <<c, t[2] + 1>> \notin DOMAIN g.tasks
  BY TaskFacts
<1>2. ASSUME NEW u \in DOMAIN g.tasks, u[1] = c, <<c, u[2] + 1>> \notin DOMAIN g.tasks
      PROVE  u = t
  <2>1. u = <<c, u[2]>> /\ u[2] \in Nat
    BY <1>2, TaskFacts
  <2>2. ~(t[2] < u[2])
    <3>1. \A i \in 0 .. u[2] : <<c, i>> \in DOMAIN g.tasks
      BY <1>2 DEF Numbered
    <3> QED
      BY <1>1, <2>1, <3>1
  <2>3. ~(u[2] < t[2])
    <3>1. \A i \in 0 .. t[2] : <<c, i>> \in DOMAIN g.tasks
      BY DEF Numbered
    <3> QED
      BY <1>1, <1>2, <2>1, <3>1
  <2> QED
    BY <1>1, <2>1, <2>2, <2>3
<1>3. \A u \in DOMAIN g.tasks : u[1] = c /\ <<c, u[2] + 1>> \notin DOMAIN g.tasks <=> u = t
  BY <1>1, <1>2
<1> QED
  BY <1>3 DEF LastTask

LEMMA GraphForkJoin == QueueInv /\ GraphInv => ForkJoin
<1> SUFFICES ASSUME QueueInv, GraphInv, pc = "scan" PROVE ForkJoin
  BY DEF ForkJoin
<1>1. PICK g : g = graph
  OBVIOUS
<1>2. ProgramTypes /\ Relatives /\ Built(g)
  BY <1>1 DEF QueueInv, GraphInv, Story
<1>3. /\ IsGraph(g) /\ Numbered(g) /\ Creators(g) /\ Joinings(g, Gone)
      /\ g.exited = {c \in Context : Exited(c)}
  BY <1>2, BuiltFacts DEF Sound
<1>4. ASSUME NEW c \in Context \ {0}, <<c, 0>> \in DOMAIN graph.tasks
      PROVE  \E t \in DOMAIN graph.tasks :
                /\ t[1] = creator[c] /\ Type(graph, t) = "create"
                /\ graph.tasks[<<c, 0>>].pred = {t} /\ <<c, 0>> \in graph.tasks[t].succ
  BY <1>1, <1>3, <1>4 DEF Creators, Forks
<1>5. ASSUME NEW p \in Context, NEW c \in Context, c \in graph.exited,
             NEW e \in Returned(p), e.kind = "join", e.other = c
      PROVE  \E j \in graph.tasks[LastTask(graph, c)].succ :
                j[1] = p /\ Type(graph, j) = "join"
  <2>1. PICK q \in PlacesOf(p) : Nth(q) <= got[p] /\ e = EventAt(q)
    BY DEF Returned
  <2>2. q \in Place /\ Ctid(q) = p
    BY <1>2, PlaceFacts
  <2>3. Done(q)
    BY <2>1, <2>2 DEF Done, Dealt
  <2>4. Joined(c) /\ Exited(c)
    BY <1>1, <1>3, <1>5, <2>1, <2>2, <2>3 DEF Joined
  <2>5. creator[c] = p
    BY <1>2, <1>5, <2>1, <2>2, OtherPlace
  <2>6. c \in Gone
    BY <2>4 DEF Gone
  <2>7. PICK t \in DOMAIN g.tasks :
           /\ t[1] = c /\ getNext(t) \notin DOMAIN g.tasks
           /\ \E j \in g.tasks[t].succ :
                 j[1] = creator[c] /\ j \in DOMAIN g.tasks /\ Type(g, j) = "join"
    BY <1>3, <2>6 DEF Joinings
  <2>8. LastTask(g, c) = t
    BY <1>3, <2>7, LastTaskIs
  <2> QED
    BY <1>1, <2>5, <2>7, <2>8
<1> QED
  BY <1>4, <1>5 DEF ForkJoin

-----------------------------------------------------------------------------
(***************************************************************************)
(* The theorems.  They are about programs in which no thread but the main  *)
(* one returns right after a join.                                         *)
(***************************************************************************)

\* The graph and the trace stay in the relation that GraphInv states, whatever the program
\* does and in whatever order the events come.
THEOREM GraphInvariant ==
  ASSUME ReturnsAfterJoin = FALSE
  PROVE  MiddleSpec => [](QueueInv /\ GraphInv)
<1>1. MiddleInit => QueueInv /\ GraphInv
  BY QueueInit, GraphInit
<1>2. QueueInv /\ GraphInv /\ [MiddleNext]_mvars => (QueueInv /\ GraphInv)'
  BY QueueStep, GraphStep
<1> QED
  BY <1>1, <1>2, PTL DEF MiddleSpec

\* The tasks, their edges and who holds them have their types.
THEOREM MiddleTypes ==
  ASSUME ReturnsAfterJoin = FALSE
  PROVE  MiddleSpec => []MiddleTypeOK
<1>1. QueueInv /\ GraphInv => MiddleTypeOK
  BY GraphTypes
<1> QED
  BY <1>1, GraphInvariant, PTL

\* No assert of the middle layer fails, and none of its maps is without what is looked up.
THEOREM MiddleAsserts ==
  ASSUME ReturnsAfterJoin = FALSE
  PROVE  MiddleSpec => []AssertsHold
<1>1. QueueInv /\ GraphInv => AssertsHold
  BY GraphAsserts
<1> QED
  BY <1>1, GraphInvariant, PTL

\* A thread's first task follows its create, and its last one precedes the join.
THEOREM MiddleForkJoin ==
  ASSUME ReturnsAfterJoin = FALSE
  PROVE  MiddleSpec => []ForkJoin
<1>1. QueueInv /\ GraphInv => ForkJoin
  BY GraphForkJoin
<1> QED
  BY <1>1, GraphInvariant, PTL

\* A barrier that is released has a task of every thread before it and one after it.
THEOREM MiddleBarriers ==
  ASSUME ReturnsAfterJoin = FALSE
  PROVE  MiddleSpec => []BarrierSeparates
<1>1. QueueInv /\ GraphInv => BarrierSeparates
  BY GraphBarriers
<1> QED
  BY <1>1, GraphInvariant, PTL

\* The background thread may write and delete a task that was released: nothing changes it.
THEOREM MiddleReleased ==
  ASSUME ReturnsAfterJoin = FALSE
  PROVE  MiddleSpec => ReleasedIsFinal
<1>1. QueueInv /\ GraphInv /\ [MiddleNext]_mvars =>
         [\A t \in graph.queued : t \in graph'.queued /\ graph'.tasks[t] = graph.tasks[t]]_mvars
  BY GraphStep DEF Frozen
<1> QED
  BY <1>1, GraphInvariant, PTL DEF MiddleSpec, ReleasedIsFinal
=============================================================================
