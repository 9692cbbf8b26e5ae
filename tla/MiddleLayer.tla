---------------------------- MODULE MiddleLayer ----------------------------
(***************************************************************************)
(* The middle layer turns the events, in the order in which EventQueue     *)
(* returns them, into a graph of tasks.  A context holds the tasks that    *)
(* may still change; a task is released when nothing can change it any     *)
(* more, to a background thread that writes it and in the end an index, in *)
(* which a task comes after its predecessors.  That thread may write and   *)
(* delete a task at any time after its release.                            *)
(*                                                                         *)
(* Addresses, times and what a task does are left out; the layer runs with *)
(* parallelMiddle, on the trace of one process.                            *)
(***************************************************************************)
EXTENDS EventQueue

VARIABLE graph

mvars == <<vars, graph>>

\* A task is known by its context and its number there.
NoTask     == <<None, None>>
getNext(t) == <<t[1], t[2] + 1>>

NewTask(type) == [type |-> type, pred |-> {}, succ |-> {}]

FirstGraph ==
    [tasks   |-> [t \in {<<0, 0>>} |-> NewTask("basic_blocks")],
     held    |-> [c \in Context |-> IF c = 0 THEN {<<0, 0>>} ELSE {}],
     queued  |-> {},                              \* released tasks
     creators |-> [c \in Context |-> NoTask],     \* creatorMap: the create not yet used
     joins   |-> [c \in Context |-> NoTask],      \* joinMap: the join waiting for c's exit
     exited  |-> {},                              \* contexts with an endTime
     owner   |-> [a \in Addr |-> NoTask],         \* ownerList
     entry   |-> NoTask,                          \* entryBarrierTask
     exits   |-> <<>>,                            \* exitBarrierTasks
     failed  |-> FALSE]                           \* an assert has failed

-----------------------------------------------------------------------------
\* Context
activeTask(g, c) == CHOOSE t \in g.held[c] : \A u \in g.held[c] : u[2] <= t[2]
Type(g, t)       == g.tasks[t].type

\* How many joins join task t waits for (joinCountMap).
Pending(g, t) == Cardinality({c \in Context : g.joins[c] = t})

Check(g, ok) == [g EXCEPT !.failed = @ \/ ~ok]

\* A number that is used twice fails here; in the code it is the background thread that
\* finds it.
Make(g, t, type) ==
    Check([g EXCEPT !.tasks = Put(@, t, NewTask(type))], t \notin DOMAIN g.tasks)

Hold(g, c, t) == [g EXCEPT !.held[c] = @ \cup {t}]

Add(g, t, type) == Hold(Make(g, t, type), t[1], t)

Edge(g, t, u) ==
    Check([g EXCEPT !.tasks[t].succ = @ \cup {u}, !.tasks[u].pred = @ \cup {t}],
          t # u)

\* removeTask and backgroundQueueTask.
Release(g, t) ==
    Check([g EXCEPT !.held[t[1]] = @ \ {t}, !.queued = @ \cup {t}],
          t \in g.held[t[1]] /\ Pending(g, t) = 0)

\* Task t is followed by a new one that becomes the active task.
Follow(g, t, type) == Edge(Add(g, getNext(t), type), t, getNext(t))

createBasicBlockContinuation(g, c) == Follow(g, activeTask(g, c), "basic_blocks")

createContinuation(g, c, type) ==
    LET isBlock == Type(g, activeTask(g, c)) = "basic_blocks"
        g1      == IF isBlock THEN g ELSE createBasicBlockContinuation(g, c)
        g2      == Follow(g1, activeTask(g1, c), type)
    IN  Check(IF isBlock THEN g2 ELSE Release(g2, activeTask(g1, c)), c \notin g.exited)

attemptBackgroundQueueTask_any_join(g, t) ==
    IF Type(g, t) \in {"basic_blocks", "create", "join"} THEN Release(g, t) ELSE g

attemptBackgroundQueueTask(g, t) ==
    IF Type(g, t) \in {"basic_blocks", "create"} \/ (Type(g, t) = "join" /\ Pending(g, t) = 0)
    THEN Release(g, t) ELSE g

\* A task of this type is continued, or made and the one before it released.
Merge(g, c, type) ==
    LET t == activeTask(g, c)
    IN  IF Type(g, t) = type THEN g
        ELSE attemptBackgroundQueueTask(createContinuation(g, c, type), t)

NextBlock(g, c) ==
    LET t == activeTask(g, c)
    IN  IF Type(g, t) = "basic_blocks" THEN g
        ELSE attemptBackgroundQueueTask(createBasicBlockContinuation(g, c), t)

-----------------------------------------------------------------------------
\* One operator per type of event, of context c.

\* The active task gets too long: it is released, and what follows goes into another.
Split(g, c) == Release(createBasicBlockContinuation(g, c), activeTask(g, c))

Block(g, c, long) == IF long THEN Split(NextBlock(g, c), c) ELSE NextBlock(g, c)

Create_no_successor(g, c, child) ==
    LET g1 == Merge(g, c, "create")
    IN  [g1 EXCEPT !.creators[child] = activeTask(g1, c)]

\* The start of the child waits for this event, so the child's first task, a successor
\* now, is yet to be made.
Create(g, c, child) ==
    LET g1 == Merge(g, c, "create")
        t  == activeTask(g1, c)
    IN  [g1 EXCEPT !.tasks[t].succ = @ \cup {<<child, 0>>}, !.creators[child] = t]

Start_in_parent(g, c) ==
    LET t == g.creators[c]
    IN  IF t = NoTask THEN Check(g, FALSE)
        ELSE [Hold(Make(g, <<c, 0>>, "basic_blocks"), t[1], <<c, 0>>) EXCEPT
                 !.tasks[<<c, 0>>].pred = {t}, !.creators[c] = NoTask]

Start(g, c) ==
    LET t == g.creators[c]
    IN  IF t = NoTask THEN Check(g, FALSE)
        ELSE [Add(g, <<c, 0>>, "basic_blocks") EXCEPT
                 !.tasks[<<c, 0>>].pred = {t}, !.creators[c] = NoTask]

Sync_wait_owns(g, c, a, wait) ==
    LET t  == activeTask(g, c)
        g1 == attemptBackgroundQueueTask(createContinuation(g, c, IF wait THEN "wait" ELSE "sync"), t)
        s  == activeTask(g1, c)
        g2 == createBasicBlockContinuation(g1, c)
        o  == g.owner[a]
        g3 == IF wait \/ o = NoTask THEN g2 ELSE Release(Edge(g2, o, s), o)
    IN  [g3 EXCEPT !.owner[a] = s]

\* All but condition waits are ordered with the last sync on the address.
Sync(g, c, a, wait) ==
    LET t  == activeTask(g, c)
        g1 == attemptBackgroundQueueTask(createContinuation(g, c, IF wait THEN "wait" ELSE "sync"), t)
        s  == activeTask(g1, c)
        g2 == createBasicBlockContinuation(g1, c)
        o  == g.owner[a]
        g3 == IF wait \/ o = NoTask THEN g2 ELSE Release(Edge(g2, o, s), o)
    IN  IF wait THEN g3 ELSE [g3 EXCEPT !.owner[a] = s]

Exit_releases_active(g, c, parent) ==
    LET t  == activeTask(g, c)
        j  == g.joins[c]
        g1 == [g EXCEPT !.exited = @ \cup {c}]
        g2 == Edge([Check(g1, j \in g.held[parent]) EXCEPT !.joins[c] = NoTask], t, j)
        g3 == IF Pending(g2, j) = 0 THEN Release(g2, j) ELSE g2
    IN  IF j = NoTask \/ j[1] # parent THEN g1 ELSE Release(g3, t)

\* The join a parent has made already gets its edge now.  It is released unless it is
\* the parent's active task or waits for others.
Exit(g, c, parent) ==
    LET t  == activeTask(g, c)
        j  == g.joins[c]
        g1 == [g EXCEPT !.exited = @ \cup {c}]
        g2 == Edge([Check(g1, j \in g.held[parent]) EXCEPT !.joins[c] = NoTask], t, j)
        g3 == IF j # activeTask(g2, parent) /\ Pending(g2, j) = 0 THEN Release(g2, j) ELSE g2
    IN  IF j = NoTask \/ j[1] # parent THEN g1 ELSE Release(g3, t)

Join_waits_always(g, c, child) ==
    LET g1 == Merge(g, c, "join")
    IN  [g1 EXCEPT !.joins[child] = activeTask(g1, c)]

\* A child that has exited is joined at once, otherwise its exit will do it.
Join(g, c, child) ==
    LET g1 == Merge(g, c, "join")
        j  == activeTask(g1, c)
    IN  IF child \in g.exited
        THEN Release(Edge(g1, activeTask(g, child), j), activeTask(g, child))
        ELSE [g1 EXCEPT !.joins[child] = j]

\* BarrierWrapper::onEnter.  A context that is not among those of an exit barrier is
\* taken for a late one and attached to it.
Contexts(ts) == {t[1] : t \in ts}

Enter_first_exit(g, c) ==
    LET g1 == NextBlock(g, c)
        t  == activeTask(g1, c)
    IN  IF g.exits # <<>> THEN Edge(g1, t, Head(g.exits))
        ELSE IF g.entry # NoTask THEN Edge(g1, t, g.entry)
        ELSE Edge(Make([g1 EXCEPT !.entry = getNext(t)], getNext(t), "barrier"), t, getNext(t))

Enter(g, c) ==
    LET g1     == NextBlock(g, c)
        t      == activeTask(g1, c)
        others == {i \in DOMAIN g.exits : c \notin Contexts(g.tasks[g.exits[i]].pred)}
    IN  IF others # {} THEN Edge(g1, t, g.exits[Min(others)])
        ELSE IF g.entry # NoTask THEN Edge(g1, t, g.entry)
        ELSE Edge(Make([g1 EXCEPT !.entry = getNext(t)], getNext(t), "barrier"), t, getNext(t))

\* BarrierWrapper::onExit: the oldest barrier the context has entered and not left.
\* The owner of the barrier task holds it from now on, the last to leave releases it.
Leave(g, c) ==
    LET t        == activeTask(g, c)
        mine     == {i \in DOMAIN g.exits : /\ c \in Contexts(g.tasks[g.exits[i]].pred)
                                            /\ c \notin Contexts(g.tasks[g.exits[i]].succ)}
        b        == IF mine # {} THEN g.exits[Min(mine)] ELSE g.entry
        g1       == IF mine # {} THEN g
                    ELSE [Check(g, c \in Contexts(g.tasks[b].pred)) EXCEPT
                             !.entry = NoTask, !.exits = Append(@, b)]
        finished == Cardinality(g.tasks[b].pred) = 1 + Cardinality(g.tasks[b].succ)
        at       == IF mine # {} THEN Min(mine) ELSE Len(g1.exits)
        g2       == IF finished THEN [g1 EXCEPT !.exits = RemoveAt(@, at)] ELSE g1
        next     == IF b[1] = c THEN getNext(b) ELSE getNext(t)
        g3       == Edge(Add(IF b[1] = c THEN Hold(g2, c, b) ELSE g2, next, "basic_blocks"),
                         t, next)
        g4       == Edge(attemptBackgroundQueueTask(g3, t), b, next)
    IN  IF b = NoTask THEN Check(g, FALSE)
        ELSE IF finished THEN Release(g4, b) ELSE g4

\* The switch of the main loop.  An event other than a start needs a context with tasks.
Handled(g, e) ==
    IF e.kind = "buffer" THEN g
    ELSE IF (e.kind = "start") # (g.held[e.ctid] = {}) THEN Check(g, FALSE)
    ELSE CASE e.kind = "block"  -> Block(g, e.ctid, e.long)
           [] e.kind = "create" -> Create(g, e.ctid, e.other)
           [] e.kind = "start"  -> Start(g, e.ctid)
           [] e.kind = "sync"   -> Sync(g, e.ctid, e.addr, e.wait)
           [] e.kind = "exit"   -> Exit(g, e.ctid, e.other)
           [] e.kind = "join"   -> Join(g, e.ctid, e.other)
           [] e.kind = "enter"  -> Enter(g, e.ctid)
           [] e.kind = "leave"  -> Leave(g, e.ctid)

Handle == Consume /\ graph' = Handled(graph, event)

-----------------------------------------------------------------------------
\* The end: what the contexts still hold is released, and the index is written.  n
\* tasks in: the first task, and then those all of whose predecessors are in.
Ready(g, in, t) == Cardinality({u \in in : t \in g.tasks[u].succ}) = Cardinality(g.tasks[t].pred)

Indexed(g) ==
    LET in[n \in 0 .. Cardinality(g.queued)] ==
            IF n = 0 THEN {<<0, 0>>}
            ELSE LET before == in[n - 1]
                     succ   == UNION {g.tasks[u].succ : u \in before}
                 IN  before \cup {t \in succ \cap g.queued : Ready(g, before, t)}
    IN  in[Cardinality(g.queued)]

Finish ==
    /\ pc = "end"
    /\ pc' = "done"
    /\ graph' = [Check(graph, graph.queued \cap UNION Range(graph.held) = {}) EXCEPT
                    !.queued = @ \cup UNION Range(graph.held),
                    !.held = [c \in Context |-> {}]]
    /\ UNCHANGED <<program, lib, list, event, got>>

-----------------------------------------------------------------------------
MiddleInit == Init /\ graph = FirstGraph

Middle == (BeginMiddle \/ Scan \/ Read) /\ UNCHANGED graph

MiddleNext ==
    \/ Program /\ UNCHANGED graph
    \/ Middle
    \/ Handle
    \/ Finish

MiddleSpec == MiddleInit /\ [][MiddleNext]_mvars

\* Once the program has ended nothing stops the middle layer.  An event is handled
\* whenever it can be consumed.
MiddleFairSpec == MiddleSpec /\ WF_vars(Scan \/ Read \/ Consume)

-----------------------------------------------------------------------------
TaskId == Context \X Nat

MiddleTypeOK ==
    /\ graph.tasks \in [DOMAIN graph.tasks ->
            [type : {"basic_blocks", "create", "sync", "wait", "join", "barrier"},
             pred : SUBSET TaskId, succ : SUBSET TaskId]]
    /\ DOMAIN graph.tasks \subseteq TaskId
    /\ \A c \in Context : graph.held[c] \subseteq {t \in DOMAIN graph.tasks : t[1] = c}
    /\ graph.queued \subseteq DOMAIN graph.tasks

\* No assert of the middle layer fails and no context is without the task that is to be
\* changed, whatever order the events come in.
AssertsHold == ~graph.failed

\* What taskWrite.cpp:37 expects of the callers of backgroundQueueTask: a task that was
\* released is never changed again.
ReleasedIsFinal ==
    [][\A t \in graph.queued : t \in graph'.queued /\ graph'.tasks[t] = graph.tasks[t]]_mvars

LastTask(g, c) == CHOOSE t \in DOMAIN g.tasks : t[1] = c /\ <<c, t[2] + 1>> \notin DOMAIN g.tasks

\* The first task of a thread follows the task that created it and nothing else; when
\* both have come the last task of a thread precedes a join of the one who joins it,
\* whichever of exit and join came first.
ForkJoin ==
    pc = "scan" =>
        /\ \A c \in Context \ {0} :
              <<c, 0>> \in DOMAIN graph.tasks =>
                  \E t \in DOMAIN graph.tasks :
                      /\ t[1] = creator[c] /\ Type(graph, t) = "create"
                      /\ graph.tasks[<<c, 0>>].pred = {t} /\ <<c, 0>> \in graph.tasks[t].succ
        /\ \A p, c \in Context :
              (/\ c \in graph.exited
               /\ \E e \in Returned(p) : e.kind = "join" /\ e.other = c) =>
                  \E j \in graph.tasks[LastTask(graph, c)].succ :
                      j[1] = p /\ Type(graph, j) = "join"

\* A barrier task that is released has one task of every thread before it and one after
\* it, in every round; at the end those that are left are released too.
BarrierSeparates ==
    \A b \in graph.queued :
        Type(graph, b) = "barrier" /\ (pc = "done" => Delivered) =>
            \A ts \in {graph.tasks[b].pred, graph.tasks[b].succ} :
                Contexts(ts) = plan.party /\ Cardinality(ts) = Cardinality(plan.party)

\* The tasks after t.
Later(g, t) ==
    LET after[n \in 0 .. Cardinality(DOMAIN g.tasks)] ==
            IF n = 0 THEN g.tasks[t].succ
            ELSE LET ts == after[n - 1] IN ts \cup UNION {g.tasks[u].succ : u \in ts}
    IN  after[Cardinality(DOMAIN g.tasks)]

\* The tasks for the syncs of a context, and the places of those syncs.
SyncTasks(g, c) ==
    SetToSortSeq({t \in DOMAIN g.tasks : t[1] = c /\ Type(g, t) \in {"sync", "wait"}},
                 LAMBDA t, u : t[2] < u[2])
SyncPlaces(c) ==
    SetToSortSeq({p \in PlacesOf(c) : EventAt(p).kind = "sync"}, LAMBDA p, q : Nth(p) < Nth(q))

\* The graph orders the syncs on an address, but for condition waits, as the program did.
SyncsOrdered ==
    pc = "done" /\ Delivered =>
        \A c, d \in Context :
            \A i \in DOMAIN SyncPlaces(c), j \in DOMAIN SyncPlaces(d) :
                LET e == EventAt(SyncPlaces(c)[i])
                    f == EventAt(SyncPlaces(d)[j])
                IN  e.addr = f.addr /\ ~e.wait /\ ~f.wait /\ e.num < f.num =>
                        SyncTasks(graph, d)[j] \in Later(graph, SyncTasks(graph, c)[i])

\* The last assert of the background thread: the graph has no cycle and is connected,
\* so that every task gets into the index; and every successor was written.
IndexComplete ==
    pc = "done" /\ Delivered =>
        /\ Indexed(graph) = graph.queued
        /\ \A t \in graph.queued : graph.tasks[t].succ \subseteq graph.queued

\* getNextContechEvent comes back, with no assert of EventLib or EventList failed, and
\* the trace comes to an end.
MiddleEnds == pc = "scan" ~> pc = "end"

=============================================================================
