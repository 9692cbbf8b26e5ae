---------------------------- MODULE TaskManager ----------------------------
(***************************************************************************)
(* The TaskManager hands the actions of a task graph to the processors     *)
(* that replay it.  The graph's file lists the tasks in an order in which  *)
(* each follows its predecessors; only basic-block tasks have actions to   *)
(* replay, the others (create, sync, join, barrier) order them.            *)
(*                                                                         *)
(* get_next_memop is one call after the other, by one processor at a time, *)
(* but it loops over get_next_action, which calls itself; here every turn  *)
(* is a step, and `calling' keeps the other processors out until it        *)
(* returns.                                                                *)
(***************************************************************************)
EXTENDS Integers, Sequences, FiniteSets

CONSTANTS
    Graphs,         \* the task graphs that are replayed
    NumContexts,    \* the contexts of a graph, one for each processor
    QUEUE_SIZE,     \* basic-block tasks read at a time
    roi,            \* the --roi option
    Limits          \* values of the --limit option, 0 for none

NoTask == 0
Nobody == -1

\* A task is known by its place in the file.
TaskRec == [context : Nat, basic_blocks : BOOLEAN, preds : SUBSET (Nat \ {0}),
            start : Nat, actions : Seq(BOOLEAN)]

\* Of an action only whether it is a memory operation matters.  A graph's order is
\* that of the index: predecessors first, basic blocks by their start times.
IsGraph(g) ==
    /\ g.tasks \in Seq(TaskRec)
    /\ roi => g.roi_start \in 1 .. Len(g.tasks)
    /\ g.roi_end \in Nat
    /\ \A t \in 1 .. Len(g.tasks) :
          /\ g.tasks[t].context < NumContexts
          /\ g.tasks[t].preds \subseteq 1 .. t - 1
          /\ \A u \in 1 .. t - 1 :
                g.tasks[u].basic_blocks /\ g.tasks[t].basic_blocks
                => g.tasks[u].start < g.tasks[t].start

ASSUME TaskManagerAssumption ==
    /\ \A g \in Graphs : IsGraph(g)
    /\ NumContexts \in Nat
    /\ QUEUE_SIZE \in Nat \ {0}
    /\ roi \in BOOLEAN
    /\ Limits \subseteq Nat

VARIABLES
    graph,          \* the graph that is replayed
    task_limit,     \* and the limit
    nextTask,       \* the next task of the file
    queue,          \* basic-block tasks that have been read and not begun
    ready,          \* per context, the task it is in
    ready_indices,  \* and how many of its actions it has got
    retired,        \* tasks that are over
    no_more_tasks,  \* the file, or the region of interest, is at its end
    done,
    task_counter,
    calling,        \* the context whose call of get_next_memop is under way
    handed          \* per task, how many of its actions have been handed out

vars == <<graph, task_limit, nextTask, queue, ready, ready_indices, retired, no_more_tasks,
          done, task_counter, calling, handed>>

Task    == 1 .. Len(graph.tasks)
Context == 0 .. NumContexts - 1

basic(t)   == graph.tasks[t].basic_blocks
context(t) == graph.tasks[t].context
preds(t)   == graph.tasks[t].preds
start(t)   == graph.tasks[t].start
actions(t) == graph.tasks[t].actions

-----------------------------------------------------------------------------
\* The constructor: goto_roi reads, and retires, what comes before the region of
\* interest; it also reads, and forgets, the task the region starts with.
first == IF roi THEN graph.roi_start + 1 ELSE 1

Init ==
    /\ graph \in Graphs /\ task_limit \in Limits
    /\ nextTask = first
    /\ queue = {}
    /\ ready = [c \in Context |-> NoTask]
    /\ ready_indices = [c \in Context |-> 0]
    /\ retired = IF roi THEN 1 .. graph.roi_start - 1 ELSE {}
    /\ no_more_tasks = FALSE
    /\ done = FALSE
    /\ task_counter = IF roi THEN graph.roi_start - 1 ELSE 0
    /\ calling = Nobody
    /\ handed = [t \in Task |-> 0]

-----------------------------------------------------------------------------
\* get_next_memop by context c; when everything is done it returns at once.
Call(c) ==
    /\ calling = Nobody /\ ~done
    /\ calling' = c
    /\ UNCHANGED <<graph, task_limit, nextTask, queue, ready, ready_indices,
                   retired, no_more_tasks, done, task_counter, handed>>

\* The next action of the task c is in; if it is not a memory operation,
\* get_next_memop asks for another.
NextAction(c) ==
    LET t == ready[c]
        n == ready_indices[c]
    IN  /\ calling = c /\ t # NoTask
        /\ n < Len(actions(t))
        /\ ready_indices' = [ready_indices EXCEPT ![c] = n + 1]
        /\ handed' = [handed EXCEPT ![t] = n + 1]
        /\ calling' = IF actions(t)[n + 1] THEN Nobody ELSE c
        /\ UNCHANGED <<graph, task_limit, nextTask, queue, ready, retired,
                       no_more_tasks, done, task_counter>>

LimitReached_one_late(n) == task_limit > 0 /\ n > task_limit

LimitReached(n) == task_limit > 0 /\ n >= task_limit

\* The task is at its end: it is retired, and unless the limit has been reached the
\* call goes on to the queue.
RetireTask(c) ==
    LET t == ready[c]
    IN  /\ calling = c /\ t # NoTask
        /\ ready_indices[c] >= Len(actions(t))
        /\ retired' = retired \cup {t}
        /\ ready' = [ready EXCEPT ![c] = NoTask]
        /\ ready_indices' = [ready_indices EXCEPT ![c] = 0]
        /\ IF LimitReached(task_counter + 1)
           THEN /\ task_counter' = Len(graph.tasks)
                /\ done' = TRUE
                /\ calling' = Nobody
           ELSE /\ task_counter' = task_counter + 1
                /\ UNCHANGED <<done, calling>>
        /\ UNCHANGED <<graph, task_limit, nextTask, queue, no_more_tasks,
                       handed>>

Idle(c) == calling = c /\ ready[c] = NoTask

all_done_unasked == TRUE

all_done == \A c \in Context : ready[c] = NoTask

NothingLeft(c) ==
    /\ Idle(c) /\ queue = {} /\ no_more_tasks
    /\ done' = all_done
    /\ task_counter' = IF all_done THEN Len(graph.tasks) ELSE task_counter
    /\ calling' = Nobody
    /\ UNCHANGED <<graph, task_limit, nextTask, queue, ready, ready_indices,
                   retired, no_more_tasks, handed>>

-----------------------------------------------------------------------------
\* refill_queue reads until it has QUEUE_SIZE basic blocks, or comes to the end of
\* the file or of the region of interest, whose last task it reads and forgets.
Basics(read) == {t \in read : basic(t)}

End == IF roi /\ graph.roi_end >= nextTask /\ graph.roi_end \in Task
       THEN graph.roi_end ELSE Len(graph.tasks) + 1

Enough(last) ==
    /\ last \in nextTask .. End - 1
    /\ basic(last)
    /\ Cardinality(Basics(nextTask .. last)) = QUEUE_SIZE

Take_null(read) ==
    /\ queue' = IF Cardinality(Basics(read)) < QUEUE_SIZE
                THEN Basics(read) \cup {NoTask} ELSE Basics(read)
    /\ retired' = retired \cup (read \ Basics(read))
    /\ task_counter' = task_counter + Cardinality(read \ Basics(read))
    /\ UNCHANGED <<graph, task_limit, ready, ready_indices, done, calling,
                   handed>>

Take_forgets(read) ==
    /\ queue' = Basics(read)
    /\ task_counter' = task_counter + Cardinality(read \ Basics(read))
    /\ calling' = IF Basics(read) = {} THEN Nobody ELSE calling
    /\ UNCHANGED <<graph, task_limit, ready, ready_indices, retired, done,
                   handed>>

Take(read) ==
    /\ queue' = Basics(read)
    /\ retired' = retired \cup (read \ Basics(read))
    /\ task_counter' = task_counter + Cardinality(read \ Basics(read))
    /\ calling' = IF Basics(read) = {} THEN Nobody ELSE calling
    /\ UNCHANGED <<graph, task_limit, ready, ready_indices, done, handed>>

Refill(c) ==
    /\ Idle(c) /\ queue = {} /\ ~no_more_tasks
    /\ \/ \E last \in nextTask .. End - 1 :
             /\ Enough(last)
             /\ Take(nextTask .. last)
             /\ nextTask' = last + 1
             /\ UNCHANGED no_more_tasks
       \/ /\ ~ \E last \in nextTask .. End - 1 : Enough(last)
          /\ Take(nextTask .. End - 1)
          /\ nextTask' = IF End \in Task THEN End + 1 ELSE End
          /\ no_more_tasks' = TRUE

-----------------------------------------------------------------------------
IsTop_any(t) == t \in queue

IsTop(t) == t \in queue /\ \A u \in queue : start(t) <= start(u)

preds_met_one(t) == preds(t) = {} \/ preds(t) \cap retired # {}

preds_met(t) == preds(t) \subseteq retired

\* Only the task on top of the queue is looked at.
TakeTop(c) ==
    \E t \in queue :
        /\ Idle(c) /\ IsTop(t)
        /\ context(t) = c /\ preds_met(t)
        /\ queue' = queue \ {t}
        /\ ready' = [ready EXCEPT ![c] = t]
        /\ ready_indices' = [ready_indices EXCEPT ![c] = 0]
        /\ UNCHANGED <<graph, task_limit, nextTask, retired, no_more_tasks,
                       done, task_counter, calling, handed>>

NotReady(c) ==
    \E t \in queue :
        /\ Idle(c) /\ IsTop(t)
        /\ ~(context(t) = c /\ preds_met(t))
        /\ calling' = Nobody
        /\ UNCHANGED <<graph, task_limit, nextTask, queue, ready, ready_indices,
                       retired, no_more_tasks, done, task_counter, handed>>

get_next_memop(c) ==
    \/ NextAction(c) \/ RetireTask(c)
    \/ NothingLeft(c) \/ Refill(c)
    \/ TakeTop(c) \/ NotReady(c)

Next == \E c \in Context : Call(c) \/ get_next_memop(c)

Spec == Init /\ [][Next]_vars

\* A call returns, and as long as a cache is not done its event() asks for another
\* action once the last one is dealt with.
Fairness ==
    \A c \in Context : WF_vars(get_next_memop(c)) /\ SF_vars(Call(c))

FairSpec == Spec /\ Fairness

-----------------------------------------------------------------------------
(***************************************************************************)
(* Properties                                                              *)
(***************************************************************************)

TypeOK ==
    /\ nextTask \in Nat
    /\ queue \subseteq Task
    /\ ready \in [Context -> Task \cup {NoTask}]
    /\ ready_indices \in [Context -> Nat]
    /\ retired \subseteq Task
    /\ no_more_tasks \in BOOLEAN /\ done \in BOOLEAN
    /\ task_counter \in Nat
    /\ calling \in Context \cup {Nobody}
    /\ handed \in [Task -> Nat]

\* The basic blocks that are to be replayed: with --roi, those of the region.
Region ==
    {t \in Task : /\ basic(t)
                  /\ roi => t >= graph.roi_start
                  /\ roi /\ graph.roi_end >= graph.roi_start => t < graph.roi_end}

\* What has been begun, and what has been replayed to its end.
Begun(t)    == handed[t] > 0 \/ \E c \in Context : ready[c] = t
Replayed(t) == handed[t] = Len(actions(t))

\* No processor gets an action of a task before all actions of the task's basic-block
\* predecessors have been handed out, whoever replays them.
PredecessorsFirst ==
    \A t \in Task : Begun(t) =>
        \A p \in preds(t) : basic(p) /\ p >= first => Replayed(p)

\* The tasks of one context are replayed one after the other, in their order, although
\* they go through a queue shared by all contexts that is refilled in batches.
ProgramOrder ==
    \A t, u \in Region :
        t >= first /\ t < u /\ context(t) = context(u) /\ Begun(u) => Replayed(t)

\* When the replay is over, everything has been replayed, unless a limit stopped it.
NothingLost == done /\ task_limit = 0 => \A t \in Region : Replayed(t)

\* With --limit, no more basic blocks are replayed to their end than it says.
LimitKept ==
    task_limit > 0 =>
        Cardinality({t \in retired : basic(t) /\ t >= first}) <= task_limit

\* Every replay ends: nobody waits for ever for a task that is not on top of the
\* queue, or for a predecessor that is never retired.
ReplayEnds == <>done

=============================================================================
