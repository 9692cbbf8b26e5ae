--------------------------- MODULE MCTaskManager ---------------------------
(***************************************************************************)
(* Task graphs for TLC.                                                    *)
(***************************************************************************)
EXTENDS TaskManager, FiniteSetsExt

CONSTANTS
    NumTasks,       \* tasks of a graph
    NumActions      \* actions of a basic block

\* The basic blocks of a graph have the same number of actions, the last of which is
\* a memory operation or is not.
Actions == {[i \in 1 .. NumActions |-> i < NumActions], [i \in 1 .. NumActions |-> TRUE]}

\* What the next task of a graph can be: a task but a context's first follows the one
\* before it in its context, a context's first one has been created by another task;
\* the trace begins with a basic block of context 0.
Follows(g, c, e) ==
    LET mine == {u \in 1 .. Len(g) : g[u].context = c}
    IN  mine # {} => \E u \in e : u \in mine /\ \A v \in mine : v <= u

Edges(g) == IF g = <<>> THEN {{}} ELSE UNION {kSubset(k, 1 .. Len(g)) : k \in {1, 2}}

NextTasks(g, a) ==
    {[context |-> c, basic_blocks |-> b, preds |-> e, start |-> Len(g) + 1,
      actions |-> IF b THEN a ELSE <<>>] :
        c \in 0 .. NumContexts - 1, b \in BOOLEAN,
        e \in Edges(g)}

TaskLists(a) ==
    LET lists[n \in 0 .. NumTasks] ==
            IF n = 0 THEN {<<>>}
            ELSE UNION {{Append(g, k) :
                            k \in {k \in NextTasks(g, a) :
                                      /\ Follows(g, k.context, k.preds)
                                      /\ g = <<>> => k.context = 0 /\ k.basic_blocks}} :
                        g \in lists[n - 1]}
    IN  lists[NumTasks]

GraphsWith(starts, ends) ==
    {[tasks |-> g, roi_start |-> from, roi_end |-> to] :
        g \in UNION {TaskLists(a) : a \in Actions}, from \in starts, to \in ends}

\* Without --roi nobody asks for the region.
WholeGraphs == GraphsWith({0}, {0})

\* The region of interest starts with a basic block, as the trace's does.
RegionGraphs ==
    {g \in GraphsWith(1 .. NumTasks, 1 .. NumTasks) :
        g.tasks[g.roi_start].basic_blocks /\ g.roi_start < g.roi_end}

=============================================================================
