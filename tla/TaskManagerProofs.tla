-------------------------- MODULE TaskManagerProofs --------------------------
(***************************************************************************)
(* Proofs about the TaskManager, for any task graph, any number of         *)
(* contexts and any size of the queue.                                     *)
(***************************************************************************)
EXTENDS TaskManager, FiniteSetTheorems, TLAPS

-----------------------------------------------------------------------------
TypeInv ==
    /\ graph \in Graphs /\ task_limit \in Limits
    /\ nextTask \in Nat /\ nextTask >= first
    /\ queue \subseteq Task
    /\ ready \in [Context -> Task \cup {NoTask}]
    /\ ready_indices \in [Context -> Nat]
    /\ retired \subseteq Task
    /\ handed \in [Task -> Nat]
    /\ calling \in Context \cup {Nobody}

\* A task in the queue has not been begun, ...
QueueOK ==
    \A t \in queue :
        /\ basic(t) /\ first <= t /\ t < nextTask
        /\ handed[t] = 0 /\ t \notin retired

\* ... the task a context is in is its own, and as far as its index says, ...
ReadyOK ==
    \A c \in Context : ready[c] # NoTask =>
        /\ basic(ready[c]) /\ context(ready[c]) = c
        /\ first <= ready[c] /\ ready[c] < nextTask
        /\ handed[ready[c]] = ready_indices[c]
        /\ handed[ready[c]] <= Len(actions(ready[c]))
        /\ preds(ready[c]) \subseteq retired
        /\ ready[c] \notin retired /\ ready[c] \notin queue

\* ... one that has not been read is untouched, ...
UnreadOK ==
    \A t \in Task : nextTask <= t => handed[t] = 0 /\ t \notin retired

\* ... one that is over has been replayed, ...
RetiredOK ==
    \A t \in retired : basic(t) /\ first <= t => Replayed(t)

\* ... one that has been begun had its predecessors retired, ...
BegunOK ==
    \A t \in Task : handed[t] > 0 => preds(t) \subseteq retired

\* ... and one that has been read is in one of these places.
Kept(t) == basic(t) /\ first <= t /\ t < nextTask /\ ~(roi /\ t = graph.roi_end)

KeptOK ==
    \A t \in Task : Kept(t) => t \in queue \/ t \in retired \/ ready[context(t)] = t

\* When everything has been read, the file has no task left but those after the
\* region of interest.
EndOK ==
    /\ no_more_tasks => nextTask > Len(graph.tasks) \/ roi
    /\ ~no_more_tasks => nextTask <= Len(graph.tasks) + 1
    /\ done => \/ task_limit > 0
               \/ queue = {} /\ no_more_tasks /\ \A c \in Context : ready[c] = NoTask

Inv == /\ TypeInv /\ QueueOK /\ ReadyOK /\ UnreadOK /\ RetiredOK
       /\ BegunOK /\ KeptOK /\ EndOK

\* The inductive invariant.
IInv == Inv /\ ProgramOrder

-----------------------------------------------------------------------------
\* What a graph is made of.
LEMMA GraphTypes ==
  ASSUME graph \in Graphs
  PROVE  /\ Len(graph.tasks) \in Nat
         /\ first \in Nat
         /\ roi => graph.roi_start \in Task
         /\ graph.roi_end \in Nat
         /\ \A t \in Task :
               /\ t \in Nat /\ t # NoTask
               /\ basic(t) \in BOOLEAN /\ context(t) \in Context
               /\ preds(t) \subseteq 1 .. t - 1
               /\ start(t) \in Nat /\ Len(actions(t)) \in Nat
  <1> DEFINE ts == graph.tasks
  <1>1. IsGraph(graph)
    BY TaskManagerAssumption
  <1>2. /\ ts \in Seq(TaskRec)
        /\ roi => graph.roi_start \in 1 .. Len(ts)
        /\ graph.roi_end \in Nat
        /\ \A t \in 1 .. Len(ts) :
              ts[t].context < NumContexts /\ ts[t].preds \subseteq 1 .. t - 1
    BY <1>1 DEF IsGraph
  <1>3. Len(ts) \in Nat /\ \A t \in 1 .. Len(ts) : ts[t] \in TaskRec
    BY <1>2
  <1>4. first \in Nat
    BY <1>2, <1>3 DEF first
  <1>5. ASSUME NEW t \in Task
        PROVE  /\ t \in Nat /\ t # NoTask
               /\ basic(t) \in BOOLEAN /\ context(t) \in Context
               /\ preds(t) \subseteq 1 .. t - 1
               /\ start(t) \in Nat /\ Len(actions(t)) \in Nat
    <2>1. t \in 1 .. Len(ts) /\ t \in Nat /\ t # NoTask
      BY <1>3 DEF Task, NoTask
    <2>2. /\ ts[t].context \in Nat /\ ts[t].basic_blocks \in BOOLEAN
          /\ ts[t].start \in Nat /\ ts[t].actions \in Seq(BOOLEAN)
      BY <1>3, <2>1 DEF TaskRec
    <2>3. ts[t].context \in Context
      BY <1>2, <2>1, <2>2, TaskManagerAssumption DEF Context
    <2>4. Len(ts[t].actions) \in Nat
      BY <2>2
    <2> QED
      BY <1>2, <2>1, <2>2, <2>3, <2>4 DEF basic, context, preds, start, actions
  <1> QED
    BY <1>2, <1>3, <1>4, <1>5 DEF Task

\* The basic blocks of a graph are in the order of their start times.
LEMMA StartOrder ==
  ASSUME graph \in Graphs, NEW t \in Task, NEW u \in Task,
         basic(t), basic(u), t < u
  PROVE  start(t) < start(u)
  <1>1. IsGraph(graph)
    BY TaskManagerAssumption
  <1>2. t \in 1 .. Len(graph.tasks) /\ u \in 1 .. Len(graph.tasks) /\ t \in 1 .. u - 1
    BY GraphTypes DEF Task
  <1> QED
    BY <1>1, <1>2 DEF IsGraph, basic, start

\* Nothing has been begun when the replay starts.
LEMMA InitIInv == Init => IInv
  <1> SUFFICES ASSUME Init PROVE IInv
    OBVIOUS
  <1> USE DEF Init
  <1>1. TypeInv
    BY GraphTypes DEF TypeInv, Task, Nobody
  <1>2. QueueOK /\ ReadyOK /\ BegunOK /\ EndOK
    BY GraphTypes DEF QueueOK, ReadyOK, BegunOK, EndOK, first, Task
  <1>3. UnreadOK /\ RetiredOK
    BY GraphTypes DEF UnreadOK, RetiredOK, first, Task
  <1>4. KeptOK
    BY GraphTypes DEF KeptOK, Kept
  <1>5. ProgramOrder
    <2> SUFFICES ASSUME NEW u \in Task, Begun(u) PROVE FALSE
      BY DEF ProgramOrder, Region
    <2> QED
      BY GraphTypes DEF Begun
  <1> QED
    BY <1>1, <1>2, <1>3, <1>4, <1>5 DEF IInv, Inv

-----------------------------------------------------------------------------
\* A task that has not been begun before a step that hands nothing out and begins
\* nothing is not begun after it.
LEMMA OrderKept ==
  ASSUME ProgramOrder, graph' = graph,
         \A u \in Task : Begun(u)' => Begun(u),
         \A t \in Task : Replayed(t) => Replayed(t)'
  PROVE  ProgramOrder'
  BY DEF ProgramOrder, Region, Task, first, context, basic

LEMMA CallKeeps ==
  ASSUME IInv, NEW c \in Context, Call(c)
  PROVE  IInv'
  <1> USE DEF Call
  <1>1. TypeInv'
    BY DEF IInv, Inv, TypeInv, first, Task, Context
  <1>2. QueueOK' /\ ReadyOK' /\ UnreadOK' /\ BegunOK'
    BY DEF IInv, Inv, QueueOK, ReadyOK, UnreadOK, BegunOK, first, Task, Context,
           basic, context, preds, actions
  <1>3. RetiredOK' /\ KeptOK' /\ EndOK'
    BY DEF IInv, Inv, RetiredOK, KeptOK, EndOK, Replayed, Kept, first, Task, Context,
           basic, context, preds, actions
  <1>4. ProgramOrder'
    BY OrderKept DEF IInv, Begun, Replayed, actions, Task, Context
  <1> QED
    BY <1>1, <1>2, <1>3, <1>4 DEF IInv, Inv

\* The context's task is in progress, and what it gets next it has not had.
LEMMA NextActionKeeps ==
  ASSUME IInv, NEW c \in Context, NextAction(c)
  PROVE  IInv'
  <1> DEFINE t == ready[c]
             n == ready_indices[c]
  <1>1. /\ t \in Task /\ t # NoTask /\ n < Len(actions(t)) /\ n \in Nat
        /\ Len(actions(t)) \in Nat
        /\ handed[t] = n /\ preds(t) \subseteq retired
        /\ t \notin retired /\ t \notin queue /\ t < nextTask /\ first <= t
        /\ basic(t) /\ context(t) = c
    <2>1. t \in Task /\ t # NoTask /\ n < Len(actions(t)) /\ n \in Nat
      BY DEF NextAction, IInv, Inv, TypeInv
    <2> QED
      BY <2>1, GraphTypes DEF IInv, Inv, TypeInv, ReadyOK
  <1>2. /\ ready_indices' = [ready_indices EXCEPT ![c] = n + 1]
        /\ handed' = [handed EXCEPT ![t] = n + 1]
        /\ calling' \in {Nobody, c}
        /\ UNCHANGED <<graph, task_limit, nextTask, queue, ready, retired, no_more_tasks, done>>
    BY DEF NextAction
  <1> HIDE DEF t, n
  <1>3. TypeInv'
    BY <1>1, <1>2 DEF IInv, Inv, TypeInv, first, Task, Context
  <1>4. QueueOK' /\ UnreadOK'
    BY <1>1, <1>2, GraphTypes DEF IInv, Inv, TypeInv, QueueOK, UnreadOK, first, Task, basic
  <1>5. BegunOK'
    BY <1>1, <1>2 DEF IInv, Inv, TypeInv, BegunOK, Task, preds
  <1>6. RetiredOK' /\ KeptOK' /\ EndOK'
    BY <1>1, <1>2 DEF IInv, Inv, TypeInv, RetiredOK, KeptOK, EndOK, Replayed, Kept,
           first, Task, Context, basic, context, actions
  <1>7. ReadyOK'
    <2> SUFFICES ASSUME NEW d \in Context, ready[d] # NoTask
                 PROVE  /\ basic(ready[d]) /\ context(ready[d]) = d
                        /\ first <= ready[d] /\ ready[d] < nextTask
                        /\ handed'[ready[d]] = ready_indices'[d]
                        /\ handed'[ready[d]] <= Len(actions(ready[d]))
                        /\ preds(ready[d]) \subseteq retired
                        /\ ready[d] \notin retired /\ ready[d] \notin queue
      BY <1>2 DEF ReadyOK, Context, basic, context, first, actions, preds, Task
    <2>1. CASE d = c
      BY <1>1, <1>2, <2>1 DEF IInv, Inv, TypeInv, t
    <2>2. CASE d # c
      BY <1>1, <1>2, <2>2 DEF IInv, Inv, TypeInv, ReadyOK, t
    <2> QED
      BY <2>1, <2>2
  <1>8. ProgramOrder'
    <2>1. ASSUME NEW u \in Task, Begun(u)' PROVE Begun(u)
      BY <1>1, <1>2, <2>1 DEF Begun, IInv, Inv, TypeInv, Context, t
    <2>2. ASSUME NEW u \in Task, Replayed(u) PROVE Replayed(u)'
      BY <1>1, <1>2, <2>2 DEF Replayed, IInv, Inv, TypeInv, actions
    <2>3. graph' = graph /\ Task' = Task
      BY <1>2 DEF Task
    <2> QED
      BY <2>1, <2>2, <2>3, OrderKept DEF IInv
  <1> QED
    BY <1>3, <1>4, <1>5, <1>6, <1>7, <1>8 DEF IInv, Inv

\* A task is retired when its index says that all its actions have been handed out.
LEMMA RetireTaskKeeps ==
  ASSUME IInv, NEW c \in Context, RetireTask(c)
  PROVE  IInv'
  <1> DEFINE t == ready[c]
  <1>1. /\ t \in Task /\ t # NoTask /\ Replayed(t)
        /\ t \notin queue /\ t < nextTask /\ first <= t
        /\ basic(t) /\ context(t) = c
    <2>1. t \in Task /\ t # NoTask /\ Len(actions(t)) <= ready_indices[c]
      BY GraphTypes DEF RetireTask, IInv, Inv, TypeInv
    <2>2. /\ handed[t] = ready_indices[c] /\ handed[t] <= Len(actions(t))
          /\ t \notin queue /\ t < nextTask /\ first <= t
          /\ basic(t) /\ context(t) = c
      BY <2>1 DEF IInv, Inv, ReadyOK
    <2>3. Len(actions(t)) \in Nat /\ ready_indices[c] \in Nat
      BY <2>1, GraphTypes DEF IInv, Inv, TypeInv
    <2> QED
      BY <2>1, <2>2, <2>3 DEF Replayed
  <1>2. /\ retired' = retired \cup {t}
        /\ ready' = [ready EXCEPT ![c] = NoTask]
        /\ ready_indices' = [ready_indices EXCEPT ![c] = 0]
        /\ UNCHANGED <<graph, task_limit, nextTask, queue, no_more_tasks, handed>>
        /\ calling' \in {calling, Nobody}
        /\ done' = done \/ task_limit > 0
    BY TaskManagerAssumption DEF RetireTask, LimitReached
  <1> HIDE DEF t
  <1>3. TypeInv'
    BY <1>1, <1>2 DEF IInv, Inv, TypeInv, first, Task, Context
  <1>4. QueueOK' /\ UnreadOK' /\ RetiredOK'
    BY <1>1, <1>2, GraphTypes
       DEF IInv, Inv, TypeInv, QueueOK, UnreadOK, RetiredOK, first, Task, basic,
           Replayed, actions
  <1>5. BegunOK' /\ EndOK'
    BY <1>1, <1>2 DEF IInv, Inv, TypeInv, BegunOK, EndOK, Task, Context, preds
  <1>6. KeptOK'
    <2> SUFFICES ASSUME NEW u \in Task, Kept(u)
                 PROVE  u \in queue \/ u \in retired' \/ ready'[context(u)] = u
      BY <1>2 DEF KeptOK, Kept, Task, first, basic, context
    <2>1. u \in queue \/ u \in retired \/ ready[context(u)] = u
      BY DEF IInv, Inv, KeptOK
    <2> QED
      BY <1>2, <2>1, GraphTypes DEF t, IInv, Inv, TypeInv
  <1>7. ReadyOK'
    <2> SUFFICES ASSUME NEW d \in Context, ready'[d] # NoTask
                 PROVE  /\ basic(ready[d]) /\ context(ready[d]) = d
                        /\ first <= ready[d] /\ ready[d] < nextTask
                        /\ handed[ready[d]] = ready_indices[d]
                        /\ handed[ready[d]] <= Len(actions(ready[d]))
                        /\ preds(ready[d]) \subseteq retired'
                        /\ ready[d] \notin retired' /\ ready[d] \notin queue
                        /\ ready'[d] = ready[d] /\ ready_indices'[d] = ready_indices[d]
      BY <1>2 DEF ReadyOK, Context, basic, context, first, actions, preds, Task
    <2>1. d # c /\ ready[d] # NoTask /\ ready'[d] = ready[d]
      BY <1>2 DEF IInv, Inv, TypeInv
    <2>2. context(ready[d]) = d
      BY <2>1 DEF IInv, Inv, ReadyOK
    <2>3. ready[d] # t
      BY <1>1, <2>1, <2>2
    <2> QED
      BY <1>2, <2>1, <2>3 DEF IInv, Inv, TypeInv, ReadyOK
  <1>8. ProgramOrder'
    <2>1. \A u \in Task : Begun(u)' => Begun(u)
      BY <1>1, <1>2, GraphTypes DEF Begun, IInv, Inv, TypeInv, Context, NoTask
    <2>2. \A u \in Task : Replayed(u) => Replayed(u)'
      BY <1>2 DEF Replayed, actions
    <2>3. Task' = Task
      BY <1>2 DEF Task
    <2> QED
      BY <1>2, <2>1, <2>2, <2>3, OrderKept DEF IInv
  <1> QED
    BY <1>3, <1>4, <1>5, <1>6, <1>7, <1>8 DEF IInv, Inv

LEMMA NothingLeftKeeps ==
  ASSUME IInv, NEW c \in Context, NothingLeft(c)
  PROVE  IInv'
  <1>1. /\ UNCHANGED <<graph, task_limit, nextTask, queue, ready, ready_indices, retired,
                       no_more_tasks, handed>>
        /\ calling' = Nobody
        /\ done' => queue = {} /\ no_more_tasks /\ all_done
    BY DEF NothingLeft, Idle
  <1>2. TypeInv'
    BY <1>1 DEF IInv, Inv, TypeInv, first, Task, Context
  <1>3. QueueOK' /\ ReadyOK' /\ UnreadOK' /\ BegunOK'
    BY <1>1 DEF IInv, Inv, QueueOK, ReadyOK, UnreadOK, BegunOK, first, Task, Context,
           basic, context, preds, actions
  <1>4. RetiredOK' /\ KeptOK' /\ EndOK'
    BY <1>1 DEF IInv, Inv, RetiredOK, KeptOK, EndOK, Replayed, Kept, first, Task,
           Context, basic, context, preds, actions, all_done
  <1>5. ProgramOrder'
    BY <1>1, OrderKept DEF IInv, Begun, Replayed, actions, Task, Context
  <1> QED
    BY <1>2, <1>3, <1>4, <1>5 DEF IInv, Inv

\* A call that finds the top of the queue not ready changes nothing.
LEMMA NotReadyKeeps ==
  ASSUME IInv, NEW c \in Context, NotReady(c)
  PROVE  IInv'
  <1>1. /\ UNCHANGED <<graph, task_limit, nextTask, queue, ready, ready_indices, retired,
                       no_more_tasks, done, handed>>
        /\ calling' = Nobody
    BY DEF NotReady
  <1>2. TypeInv'
    BY <1>1 DEF IInv, Inv, TypeInv, first, Task, Context
  <1>3. QueueOK' /\ ReadyOK' /\ UnreadOK' /\ BegunOK'
    BY <1>1 DEF IInv, Inv, QueueOK, ReadyOK, UnreadOK, BegunOK, first, Task, Context,
           basic, context, preds, actions
  <1>4. RetiredOK' /\ KeptOK' /\ EndOK'
    BY <1>1 DEF IInv, Inv, RetiredOK, KeptOK, EndOK, Replayed, Kept, first, Task,
           Context, basic, context, preds, actions
  <1>5. ProgramOrder'
    BY <1>1, OrderKept DEF IInv, Begun, Replayed, actions, Task, Context
  <1> QED
    BY <1>2, <1>3, <1>4, <1>5 DEF IInv, Inv

\* A refill reads the tasks up to last: its basic blocks are in the queue, the others
\* are retired.
LEMMA TakeKeeps ==
  ASSUME IInv, queue = {}, NEW last \in Nat,
         nextTask <= last + 1, last <= Len(graph.tasks),
         Take(nextTask .. last), last < nextTask', nextTask' \in Nat,
         nextTask' = last + 1 \/ (roi /\ nextTask' = last + 2 /\ graph.roi_end = last + 1),
         no_more_tasks' => nextTask' > Len(graph.tasks) \/ roi,
         ~no_more_tasks' => nextTask' <= Len(graph.tasks) + 1,
         ~no_more_tasks
  PROVE  IInv'
  <1> DEFINE read == nextTask .. last
             basics == Basics(read)
  <1>1. /\ queue' = basics
        /\ retired' = retired \cup (read \ basics)
        /\ calling' \in {calling, Nobody}
        /\ UNCHANGED <<graph, task_limit, ready, ready_indices, done, handed>>
    BY DEF Take
  <1>2. /\ read \subseteq Task
        /\ \A t \in read : /\ first <= t /\ nextTask <= t /\ t < nextTask'
                           /\ t \in Nat /\ t # NoTask
                           /\ handed[t] = 0 /\ t \notin retired
        /\ \A t \in read : t \in basics <=> basic(t)
        /\ basics \subseteq read
    <2>1. read \subseteq Task
      BY GraphTypes DEF IInv, Inv, TypeInv, Task, first
    <2>2. ASSUME NEW t \in read
          PROVE  /\ first <= t /\ nextTask <= t /\ t < nextTask'
                 /\ t \in Nat /\ t # NoTask
                 /\ handed[t] = 0 /\ t \notin retired
      <3>1. nextTask <= t /\ t \in Nat /\ t # NoTask
        BY <2>1, <2>2, GraphTypes DEF IInv, Inv, TypeInv
      <3>2. first <= t
        BY <3>1, GraphTypes DEF IInv, Inv, TypeInv
      <3>3. t < nextTask'
        BY <2>2, <3>1
      <3> QED
        BY <2>1, <2>2, <3>1, <3>2, <3>3 DEF IInv, Inv, UnreadOK
    <2>3. \A t \in read : t \in basics <=> basic(t)
      BY DEF Basics
    <2> QED
      BY <2>1, <2>2, <2>3 DEF Basics
  <1>3. nextTask <= nextTask' /\ nextTask \in Nat
    BY DEF IInv, Inv, TypeInv
  <1> HIDE DEF basics
  <1>4. TypeInv'
    <2>1. first' = first /\ Task' = Task /\ Context' = Context
      BY <1>1 DEF first, Task, Context
    <2>2. queue' \subseteq Task /\ retired' \subseteq Task
      BY <1>1, <1>2 DEF IInv, Inv, TypeInv
    <2>3. nextTask' >= first
      BY <1>3, GraphTypes DEF IInv, Inv, TypeInv
    <2> QED
      BY <1>1, <2>1, <2>2, <2>3 DEF IInv, Inv, TypeInv
  <1>5. QueueOK'
    BY <1>1, <1>2 DEF QueueOK, basic, first
  <1>6. UnreadOK'
    <2> SUFFICES ASSUME NEW t \in Task, nextTask' <= t
                 PROVE  handed[t] = 0 /\ t \notin retired'
      BY <1>1 DEF UnreadOK, Task
    <2>1. nextTask <= t /\ t \notin read
      BY <1>3, GraphTypes DEF IInv, Inv, TypeInv
    <2> QED
      BY <1>1, <1>2, <2>1 DEF IInv, Inv, UnreadOK
  <1>7. RetiredOK' /\ BegunOK'
    BY <1>1, <1>2 DEF IInv, Inv, RetiredOK, BegunOK, Replayed, basic, preds, actions,
           first, Task
  <1>8. ReadyOK'
    <2> SUFFICES ASSUME NEW c \in Context, ready[c] # NoTask
                 PROVE  /\ basic(ready[c]) /\ context(ready[c]) = c
                        /\ first <= ready[c] /\ ready[c] < nextTask'
                        /\ handed[ready[c]] = ready_indices[c]
                        /\ handed[ready[c]] <= Len(actions(ready[c]))
                        /\ preds(ready[c]) \subseteq retired'
                        /\ ready[c] \notin retired' /\ ready[c] \notin queue'
      BY <1>1 DEF ReadyOK, Context, basic, context, first, actions, preds, Task
    <2>1. ready[c] \in Task /\ ready[c] < nextTask
      BY DEF IInv, Inv, TypeInv, ReadyOK
    <2>2. ready[c] \notin read /\ ready[c] < nextTask'
      BY <1>2, <1>3, <2>1, GraphTypes DEF IInv, Inv, TypeInv
    <2> QED
      BY <1>1, <1>2, <2>1, <2>2 DEF IInv, Inv, ReadyOK
  <1>9. KeptOK'
    <2> SUFFICES ASSUME NEW t \in Task, Kept(t)'
                 PROVE  t \in queue' \/ t \in retired' \/ ready[context(t)] = t
      BY <1>1 DEF KeptOK, Task, context
    <2>1. basic(t) /\ first <= t /\ t < nextTask' /\ ~(roi /\ t = graph.roi_end)
      BY <1>1 DEF Kept, basic, first
    <2>2. CASE t < nextTask
      <3>1. t \in retired \/ ready[context(t)] = t
        BY <2>1, <2>2 DEF Kept, KeptOK, IInv, Inv
      <3> QED
        BY <1>1, <3>1
    <2>3. CASE nextTask <= t
      <3>1. t \in read
        BY <2>1, <2>3, <1>3, GraphTypes, SMTT(60) DEF IInv, Inv, TypeInv
      <3> QED
        BY <1>1, <1>2, <2>1, <3>1
    <2> QED
      BY <2>2, <2>3, <1>3, GraphTypes DEF IInv, Inv, TypeInv
  <1>10. EndOK'
    <2>1. /\ no_more_tasks' => nextTask' > Len(graph'.tasks) \/ roi
          /\ ~no_more_tasks' => nextTask' <= Len(graph'.tasks) + 1
      BY <1>1
    <2>2. done' => task_limit > 0
      BY <1>1 DEF IInv, Inv, EndOK
    <2> QED
      BY <1>1, <2>1, <2>2 DEF EndOK, Context
  <1>11. ProgramOrder'
    BY <1>1, OrderKept DEF IInv, Begun, Replayed, actions, Task, Context
  <1> QED
    BY <1>4, <1>5, <1>6, <1>7, <1>8, <1>9, <1>10, <1>11 DEF IInv, Inv

LEMMA RefillKeeps ==
  ASSUME IInv, NEW c \in Context, Refill(c)
  PROVE  IInv'
  <1>1. /\ queue = {} /\ ~no_more_tasks
        /\ nextTask \in Nat /\ Len(graph.tasks) \in Nat /\ graph.roi_end \in Nat
    BY GraphTypes DEF Refill, IInv, Inv, TypeInv
  <1>2. /\ End \in Nat /\ End <= Len(graph.tasks) + 1
        /\ End \in Task => roi /\ End = graph.roi_end /\ nextTask <= End
        /\ End \notin Task => End = Len(graph.tasks) + 1
    BY <1>1 DEF End, Task
  <1>3. CASE \E last \in nextTask .. End - 1 :
                /\ Take(nextTask .. last)
                /\ nextTask' = last + 1
                /\ UNCHANGED no_more_tasks
    <2>1. PICK last \in nextTask .. End - 1 :
                /\ Take(nextTask .. last)
                /\ nextTask' = last + 1
                /\ UNCHANGED no_more_tasks
      BY <1>3
    <2>2. last \in Nat /\ last <= Len(graph.tasks) /\ nextTask <= last + 1
      BY <1>1, <1>2
    <2> QED
      BY <1>1, <2>1, <2>2, TakeKeeps
  <1>4. CASE /\ Take(nextTask .. End - 1)
             /\ nextTask' = IF End \in Task THEN End + 1 ELSE End
             /\ no_more_tasks' = TRUE
    <2> DEFINE last == End - 1
    <2>1. CASE nextTask <= End
      <3>1. last \in Nat /\ last <= Len(graph.tasks) /\ nextTask <= last + 1
        <4>1. 1 <= nextTask
          BY <1>1, GraphTypes DEF IInv, Inv, TypeInv, first, Task
        <4> QED
          BY <1>1, <1>2, <2>1, <4>1
      <3>2. /\ nextTask' \in Nat /\ last < nextTask'
            /\ \/ nextTask' = last + 1
               \/ roi /\ nextTask' = last + 2 /\ graph.roi_end = last + 1
            /\ nextTask' > Len(graph.tasks) \/ roi
            /\ no_more_tasks' = TRUE
        BY <1>1, <1>2, <1>4
      <3>3. Take(nextTask .. last)
        BY <1>4
      <3> HIDE DEF last
      <3> QED
        BY <1>1, <3>1, <3>2, <3>3, TakeKeeps
    <2>2. nextTask <= End
      BY <1>1, <1>2 DEF IInv, Inv, EndOK
    <2> QED
      BY <1>1, <1>2, <2>1, <2>2
  <1> QED
    BY <1>3, <1>4 DEF Refill

\* The task that is taken has the least start time of the queue: an earlier task of the
\* context is neither in the queue nor the one the context is in, so it is over.
LEMMA TakeTopKeeps ==
  ASSUME IInv, NEW c \in Context, TakeTop(c)
  PROVE  IInv'
  <1>1. PICK t \in queue :
            /\ Idle(c) /\ IsTop(t)
            /\ context(t) = c /\ preds_met(t)
            /\ queue' = queue \ {t}
            /\ ready' = [ready EXCEPT ![c] = t]
            /\ ready_indices' = [ready_indices EXCEPT ![c] = 0]
            /\ UNCHANGED <<graph, task_limit, nextTask, retired, no_more_tasks, done, task_counter,
                           calling, handed>>
    BY DEF TakeTop
  <1>2. /\ t \in Task /\ t \in Nat /\ t # NoTask
        /\ ready[c] = NoTask
        /\ preds(t) \subseteq retired
        /\ \A u \in queue : start(t) <= start(u)
        /\ basic(t) /\ first <= t /\ t < nextTask /\ handed[t] = 0 /\ t \notin retired
        /\ Len(actions(t)) \in Nat
    BY <1>1, GraphTypes DEF Idle, IsTop, preds_met, IInv, Inv, TypeInv, QueueOK
  <1>3. TypeInv'
    BY <1>1, <1>2 DEF IInv, Inv, TypeInv, first, Task, Context
  <1>4. QueueOK' /\ UnreadOK' /\ RetiredOK' /\ BegunOK'
    BY <1>1 DEF IInv, Inv, QueueOK, UnreadOK, RetiredOK, BegunOK, first, Task, Context,
                basic, context, preds, actions, Replayed
  <1>5. EndOK'
    BY <1>1 DEF IInv, Inv, EndOK, Context
  <1>6. ReadyOK'
    <2> SUFFICES ASSUME NEW d \in Context, ready'[d] # NoTask
                 PROVE  /\ basic(ready'[d]) /\ context(ready'[d]) = d
                        /\ first <= ready'[d] /\ ready'[d] < nextTask
                        /\ handed[ready'[d]] = ready_indices'[d]
                        /\ handed[ready'[d]] <= Len(actions(ready'[d]))
                        /\ preds(ready'[d]) \subseteq retired
                        /\ ready'[d] \notin retired /\ ready'[d] \notin queue'
      BY <1>1 DEF ReadyOK, Context, basic, context, first, actions, preds, Task
    <2>1. CASE d = c
      BY <1>1, <1>2, <2>1 DEF IInv, Inv, TypeInv
    <2>2. CASE d # c
      BY <1>1, <2>2 DEF IInv, Inv, TypeInv, ReadyOK
    <2> QED
      BY <2>1, <2>2
  <1>7. KeptOK'
    <2> SUFFICES ASSUME NEW u \in Task, Kept(u)
                 PROVE  u \in queue' \/ u \in retired \/ ready'[context(u)] = u
      BY <1>1 DEF KeptOK, Kept, Task, first, basic, context
    <2>1. u \in queue \/ u \in retired \/ ready[context(u)] = u
      BY DEF IInv, Inv, KeptOK
    <2>2. u # NoTask /\ context(u) \in Context
      BY GraphTypes DEF IInv, Inv, TypeInv
    <2>3. CASE u = t
      BY <1>1, <2>3 DEF IInv, Inv, TypeInv
    <2>4. CASE u # t /\ ready[context(u)] = u
      <3>1. context(u) # c
        BY <1>2, <2>2, <2>4
      <3> QED
        BY <1>1, <2>2, <2>4, <3>1 DEF IInv, Inv, TypeInv
    <2> QED
      BY <1>1, <2>1, <2>3, <2>4
  <1>8. ProgramOrder'
    <2>1. Task' = Task /\ Region' = Region /\ first' = first
      BY <1>1 DEF Task, Region, first, basic
    <2> SUFFICES ASSUME NEW v \in Region, NEW u \in Region, first <= v, v < u,
                        context(v) = context(u), Begun(u)'
                 PROVE  Replayed(v)
      BY <1>1, <2>1 DEF ProgramOrder, context, Replayed, actions
    <2>2. CASE Begun(u)
      BY <2>2 DEF IInv, ProgramOrder
    <2>3. CASE ~Begun(u)
      <3>1. u = t
        BY <1>1, <2>3 DEF Begun, IInv, Inv, TypeInv, Context
      <3>2. v \in Task /\ u \in Task /\ basic(v) /\ basic(u) /\ graph \in Graphs
        BY DEF Region, IInv, Inv, TypeInv
      <3>3. start(v) < start(u) /\ start(v) \in Nat /\ start(u) \in Nat
        BY <3>2, StartOrder, GraphTypes
      <3>4. v \notin queue
        BY <1>2, <3>1, <3>3
      <3>5. ready[context(v)] # v
        BY <1>1, <1>2, <3>1, <3>2, GraphTypes
      <3>6. Kept(v)
        BY <1>2, <3>1, <3>2, GraphTypes, SMTT(60) DEF Kept, Region, IInv, Inv, TypeInv
      <3>7. v \in retired
        BY <3>2, <3>4, <3>5, <3>6 DEF IInv, Inv, KeptOK
      <3> QED
        BY <3>2, <3>7 DEF IInv, Inv, RetiredOK
    <2> QED
      BY <2>2, <2>3
  <1> QED
    BY <1>3, <1>4, <1>5, <1>6, <1>7, <1>8 DEF IInv, Inv

-----------------------------------------------------------------------------
LEMMA StutterKeeps == IInv /\ UNCHANGED vars => IInv'
  <1> SUFFICES ASSUME IInv, UNCHANGED vars PROVE IInv'
    OBVIOUS
  <1> USE DEF vars
  <1>1. TypeInv'
    BY DEF IInv, Inv, TypeInv, first, Task, Context
  <1>2. QueueOK' /\ ReadyOK' /\ UnreadOK' /\ BegunOK'
    BY DEF IInv, Inv, QueueOK, ReadyOK, UnreadOK, BegunOK, first, Task, Context,
           basic, context, preds, actions
  <1>3. RetiredOK' /\ KeptOK' /\ EndOK'
    BY DEF IInv, Inv, RetiredOK, KeptOK, EndOK, Replayed, Kept, first, Task, Context,
           basic, context, preds, actions
  <1>4. ProgramOrder'
    BY OrderKept DEF IInv, Begun, Replayed, actions, Task, Context
  <1> QED
    BY <1>1, <1>2, <1>3, <1>4 DEF IInv, Inv

LEMMA NextKeeps == IInv /\ [Next]_vars => IInv'
  <1> SUFFICES ASSUME IInv, [Next]_vars PROVE IInv'
    OBVIOUS
  <1>1. ASSUME NEW c \in Context, Call(c) \/ get_next_memop(c) PROVE IInv'
    BY <1>1, CallKeeps, NextActionKeeps, RetireTaskKeeps, NothingLeftKeeps, RefillKeeps,
       TakeTopKeeps, NotReadyKeeps DEF get_next_memop
  <1> QED
    BY <1>1, StutterKeeps DEF Next

LEMMA AlwaysIInv == Spec => []IInv
  BY InitIInv, NextKeeps, PTL DEF Spec

\* Whatever the graph, a processor gets an action of a task only when all actions of the
\* task's basic-block predecessors have been handed out.
THEOREM TaskManagerPredecessors == Spec => []PredecessorsFirst
  <1>1. IInv => PredecessorsFirst
    <2> SUFFICES ASSUME IInv, NEW t \in Task, Begun(t),
                        NEW p \in preds(t), basic(p) /\ p >= first
                 PROVE  Replayed(p)
      BY DEF PredecessorsFirst
    <2>1. t # NoTask /\ p \in Nat /\ first \in Nat
      BY GraphTypes DEF IInv, Inv, TypeInv
    <2>2. handed[t] > 0 \/ \E c \in Context : ready[c] = t
      BY DEF Begun
    <2>3. preds(t) \subseteq retired
      BY <2>1, <2>2 DEF IInv, Inv, BegunOK, ReadyOK
    <2> QED
      BY <2>1, <2>3 DEF IInv, Inv, RetiredOK
  <1> QED
    BY <1>1, AlwaysIInv, PTL

\* The tasks of one context are replayed one after the other in their order, for any
\* graph whose basic blocks are in the order of their start times.
THEOREM TaskManagerProgramOrder == Spec => []ProgramOrder
  <1>1. IInv => ProgramOrder
    BY DEF IInv
  <1> QED
    BY <1>1, AlwaysIInv, PTL

\* Without a region of interest nothing is lost: when the replay is over, every basic
\* block has been replayed to its end.
THEOREM TaskManagerNothingLost == ~roi => (Spec => []NothingLost)
  <1>1. ASSUME ~roi PROVE IInv => NothingLost
    <2> SUFFICES ASSUME IInv, done, task_limit = 0, NEW t \in Region
                 PROVE  Replayed(t)
      BY DEF NothingLost
    <2>1. queue = {} /\ no_more_tasks /\ \A c \in Context : ready[c] = NoTask
      BY DEF IInv, Inv, EndOK
    <2>2. /\ t \in Task /\ t \in Nat /\ t # NoTask /\ basic(t)
          /\ 1 <= t /\ t <= Len(graph.tasks)
          /\ Len(graph.tasks) \in Nat /\ context(t) \in Context
      BY GraphTypes DEF Region, Task, IInv, Inv, TypeInv
    <2>3. Kept(t)
      BY <1>1, <2>1, <2>2 DEF Kept, IInv, Inv, TypeInv, EndOK, first
    <2>4. t \in retired
      BY <2>1, <2>2, <2>3 DEF IInv, Inv, KeptOK
    <2> QED
      BY <2>2, <2>3, <2>4 DEF IInv, Inv, RetiredOK, Kept
  <1>2. ASSUME ~roi PROVE Spec => []NothingLost
    <2>1. IInv => NothingLost
      BY <1>1, <1>2
    <2> QED
      BY <2>1, AlwaysIInv, PTL
  <1> QED
    BY <1>2

-----------------------------------------------------------------------------
\* The basic blocks that have been replayed and retired, and what the limit rests on:
\* as long as the replay goes on, task_counter has counted each of them (and tasks
\* without actions besides), and the limit has not been reached; nobody is in a call
\* when it is over, so that nothing more is retired.
Blocks == {t \in retired : basic(t) /\ t >= first}

CountInv ==
    /\ no_more_tasks \in BOOLEAN /\ done \in BOOLEAN /\ task_counter \in Nat
    /\ done => calling = Nobody
    /\ ~done => Cardinality(Blocks) <= task_counter
    /\ task_limit > 0 /\ ~done => Cardinality(Blocks) < task_limit
    /\ task_limit > 0 => Cardinality(Blocks) <= task_limit

LEMMA BlocksFinite ==
  ASSUME IInv
  PROVE  IsFiniteSet(Blocks) /\ Cardinality(Blocks) \in Nat /\ task_limit \in Nat
  <1>1. IsFiniteSet(Task)
    <2>1. Len(graph.tasks) \in Int
      BY GraphTypes DEF IInv, Inv, TypeInv
    <2> QED
      BY <2>1, FS_Interval DEF Task
  <1>2. Blocks \subseteq Task
    BY DEF Blocks, IInv, Inv, TypeInv
  <1> QED
    BY <1>1, <1>2, FS_Subset, FS_CardinalityType, TaskManagerAssumption
       DEF IInv, Inv, TypeInv

LEMMA InitCount == Init => CountInv
  <1> SUFFICES ASSUME Init PROVE CountInv
    OBVIOUS
  <1>1. Blocks = {}
    BY GraphTypes DEF Init, Blocks, first, Task
  <1>2. Cardinality(Blocks) = 0
    BY <1>1, FS_EmptySet
  <1>3. task_counter \in Nat /\ task_limit \in Nat
    BY GraphTypes, TaskManagerAssumption DEF Init, Task
  <1>4. no_more_tasks \in BOOLEAN /\ done \in BOOLEAN /\ calling = Nobody
    BY DEF Init
  <1> QED
    BY <1>2, <1>3, <1>4 DEF CountInv

\* A step that retires no basic block and does not end the replay keeps the count.
LEMMA SameBlocks ==
  ASSUME IInv, CountInv, Blocks' = Blocks, task_limit' = task_limit,
         no_more_tasks' \in BOOLEAN, done' \in BOOLEAN, task_counter' \in Nat,
         done' => calling' = Nobody,
         ~done' => ~done /\ task_counter <= task_counter'
  PROVE  CountInv'
  BY BlocksFinite DEF CountInv

LEMMA NextCount == IInv /\ CountInv /\ [Next]_vars => CountInv'
  <1> SUFFICES ASSUME IInv, CountInv, [Next]_vars PROVE CountInv'
    OBVIOUS
  <1> DEFINE Same == retired' = retired /\ graph' = graph
  <1>1. Same => Blocks' = Blocks
    BY DEF Blocks, basic, first
  <1>2. Len(graph.tasks) \in Nat
    BY GraphTypes DEF IInv, Inv, TypeInv
  <1> HIDE DEF Same
  <1>3. CASE UNCHANGED vars
    <2>1. Same
      BY <1>3 DEF Same, vars
    <2> QED
      BY <1>1, <1>3, <2>1, SameBlocks DEF vars, CountInv
  <1>4. ASSUME NEW c \in Context, Call(c) PROVE CountInv'
    <2>1. Same
      BY <1>4 DEF Same, Call
    <2> QED
      BY <1>1, <1>4, <2>1, SameBlocks DEF Call, CountInv
  <1>5. ASSUME NEW c \in Context, get_next_memop(c) PROVE CountInv'
    <2>1. ~done
      <3>1. calling = c
        BY <1>5 DEF get_next_memop, NextAction, RetireTask, NothingLeft, Refill, TakeTop,
                    NotReady, Idle
      <3>2. c # Nobody
        BY TaskManagerAssumption DEF Context, Nobody
      <3> QED
        BY <3>1, <3>2 DEF CountInv
    <2>2. CASE NextAction(c)
      <3>1. Same
        BY <2>2 DEF Same, NextAction
      <3> QED
        BY <1>1, <2>1, <2>2, <3>1, SameBlocks DEF NextAction, CountInv
    <2>3. CASE RetireTask(c)
      <3> DEFINE t == ready[c]
      <3>1. /\ retired' = retired \cup {t} /\ graph' = graph
            /\ task_limit' = task_limit /\ no_more_tasks' = no_more_tasks
        BY <2>3 DEF RetireTask
      <3>2. Blocks' \subseteq Blocks \cup {t}
        BY <3>1 DEF Blocks, basic, first
      <3>3. IsFiniteSet(Blocks \cup {t}) /\ Cardinality(Blocks \cup {t}) <= Cardinality(Blocks) + 1
        BY BlocksFinite, FS_AddElement, SMTT(60)
      <3>4. /\ Cardinality(Blocks') \in Nat
            /\ Cardinality(Blocks') <= Cardinality(Blocks \cup {t})
        BY <3>2, <3>3, FS_Subset, FS_CardinalityType
      <3>5. Cardinality(Blocks \cup {t}) \in Nat
        BY <3>3, FS_CardinalityType
      <3>6. Cardinality(Blocks') <= Cardinality(Blocks) + 1
        BY <3>3, <3>4, <3>5, BlocksFinite
      <3> HIDE DEF t
      <3>7. CASE LimitReached(task_counter + 1)
        <4>1. done' = TRUE /\ calling' = Nobody /\ task_counter' = Len(graph.tasks)
          BY <2>3, <3>7 DEF RetireTask
        <4> QED
          BY <1>2, <2>1, <3>1, <3>4, <3>6, <4>1, BlocksFinite DEF CountInv
      <3>8. CASE ~LimitReached(task_counter + 1)
        <4>1. done' = done /\ task_counter' = task_counter + 1
          BY <2>3, <3>8 DEF RetireTask
        <4>2. task_limit > 0 => task_counter + 1 < task_limit
          BY <3>8, BlocksFinite DEF LimitReached, CountInv
        <4> QED
          BY <2>1, <3>1, <3>4, <3>6, <4>1, <4>2, BlocksFinite DEF CountInv
      <3> QED
        BY <3>7, <3>8
    <2>4. CASE NothingLeft(c)
      <3>1. Same
        BY <2>4 DEF Same, NothingLeft
      <3> QED
        BY <1>1, <1>2, <2>1, <2>4, <3>1, SameBlocks DEF NothingLeft, CountInv, all_done
    <2>5. CASE Refill(c)
      <3>1. PICK last \in Int :
                /\ Take(nextTask .. last)
                /\ no_more_tasks' \in BOOLEAN
        <4>1. End \in Nat /\ nextTask \in Nat
          BY <1>2, GraphTypes DEF End, IInv, Inv, TypeInv, Task
        <4>2. CASE \E last \in nextTask .. End - 1 :
                      Take(nextTask .. last) /\ UNCHANGED no_more_tasks
          BY <4>1, <4>2 DEF CountInv
        <4>3. CASE Take(nextTask .. End - 1) /\ no_more_tasks' = TRUE
          BY <4>1, <4>3
        <4> QED
          BY <2>5, <4>2, <4>3 DEF Refill
      <3> DEFINE read == nextTask .. last
      <3>2. /\ retired' = retired \cup (read \ Basics(read)) /\ graph' = graph
            /\ task_counter' = task_counter + Cardinality(read \ Basics(read))
            /\ UNCHANGED <<task_limit, done>>
        BY <3>1 DEF Take
      <3>3. Blocks' = Blocks
        BY <3>2 DEF Blocks, basic, first, Basics
      <3>4. Cardinality(read \ Basics(read)) \in Nat
        <4>1. IsFiniteSet(read)
          BY FS_Interval DEF IInv, Inv, TypeInv
        <4> QED
          BY <4>1, FS_Subset, FS_CardinalityType
      <3> HIDE DEF read
      <3> QED
        BY <2>1, <3>1, <3>2, <3>3, <3>4, SameBlocks DEF CountInv
    <2>6. CASE TakeTop(c)
      <3>1. Same
        BY <2>6 DEF Same, TakeTop
      <3> QED
        BY <1>1, <2>1, <2>6, <3>1, SameBlocks DEF TakeTop, CountInv
    <2>7. CASE NotReady(c)
      <3>1. Same
        BY <2>7 DEF Same, NotReady
      <3> QED
        BY <1>1, <2>1, <2>7, <3>1, SameBlocks DEF NotReady, CountInv
    <2> QED
      BY <1>5, <2>2, <2>3, <2>4, <2>5, <2>6, <2>7 DEF get_next_memop
  <1> QED
    BY <1>3, <1>4, <1>5 DEF Next

LEMMA AlwaysCount == Spec => []CountInv
  <1>1. Spec => [](IInv /\ CountInv)
    BY InitIInv, InitCount, NextKeeps, NextCount, PTL DEF Spec
  <1> QED
    BY <1>1, PTL

\* Every variable has its type: queue, ready and retired hold tasks of the file, for
\* any graph.
THEOREM TaskManagerTypes == Spec => []TypeOK
  <1>1. IInv /\ CountInv => TypeOK
    BY DEF IInv, Inv, TypeInv, CountInv, TypeOK
  <1> QED
    BY <1>1, AlwaysIInv, AlwaysCount, PTL

\* With --limit no more basic blocks are replayed to their end than it says, although
\* task_counter counts tasks without actions as well and is compared only when a basic
\* block is retired.
THEOREM TaskManagerLimitKept == Spec => []LimitKept
  <1>1. CountInv => LimitKept
    BY DEF CountInv, LimitKept, Blocks
  <1> QED
    BY <1>1, AlwaysCount, PTL

=============================================================================
