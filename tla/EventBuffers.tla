---------------------------- MODULE EventBuffers ----------------------------
(***************************************************************************)
(* The buffers of Contech's tracing runtime (ct_runtime.c, ct_main.c).     *)
(* Every thread of the traced program records events in a buffer of its    *)
(* own, queues it when it is full and allocates another; a background      *)
(* thread writes the queued buffers to the trace and recycles them.  When  *)
(* MaxBuffers are in use the program's threads wait until the writer has   *)
(* caught up.                                                              *)
(*                                                                         *)
(* The two mutexes are held for one step at a time, except where the       *)
(* writer keeps the queue's lock (writer = "check") and where it dies with *)
(* the other one (writer = "dead").  Reads of QueuedBuffers and of the two *)
(* thread counts without a lock are steps of their own.                    *)
(***************************************************************************)
EXTENDS Integers, FiniteSets, Sequences

CONSTANTS
    Thread,        \* the program's threads
    Main,          \* the one that runs main()
    MaxQueued,     \* how many buffers a thread fills before its last one
    Limits,        \* values MaxBuffers may be given by the environment
    Faults,        \* whether the program may run into a segmentation fault
    Silence        \* whether it may queue nothing for 30 s while it runs

ASSUME BuffersAssumption ==
    /\ IsFiniteSet(Thread) /\ Main \in Thread
    /\ MaxQueued \in Nat
    /\ Limits \subseteq Nat \ {0}
    /\ Faults \in BOOLEAN /\ Silence \in BOOLEAN

VARIABLES
    MaxBuffers,         \* most buffers in use at a time
    pc,                 \* what each thread is doing
    local,              \* its ThreadLocalBuffer: none, the init buffer, a real one
    queued,             \* how many buffers it has queued
    QueuedBuffers,      \* buffers to be written
    FreeBuffers,        \* length of the list of recycled buffers
    CurrentBuffers,     \* buffers in use
    ThreadGlobalNumber, \* threads that have been given a number
    ThreadExitNumber,   \* threads that have exited
    SegFaultObs,        \* a segmentation fault has been seen
    writer,             \* what the background thread is doing
    timedOut,           \* its condRetVal is ETIMEDOUT
    memLimitQueue,      \* length of its list of buffers held back at the limit
    memLimitBufCount,   \* its count of them
    written             \* the trace: buffers in the order they were written

vars == <<MaxBuffers, pc, local, queued, QueuedBuffers, FreeBuffers,
          CurrentBuffers, ThreadGlobalNumber, ThreadExitNumber, SegFaultObs,
          writer, timedOut, memLimitQueue, memLimitBufCount, written>>

poolVars   == <<FreeBuffers, CurrentBuffers>>
countVars  == <<ThreadGlobalNumber, ThreadExitNumber>>
limitVars  == <<memLimitQueue, memLimitBufCount>>
threadVars == <<pc, local, queued>>
writerVars == <<writer, timedOut, memLimitQueue, memLimitBufCount, written>>

\* A buffer: the thread that filled it, which of its buffers it is, and whether
\* it is one of full size or a copy cut to length.
Buffer == [id : Thread, pos : Nat \ {0}, full : BOOLEAN]

ThreadPc == {"off", "alloc", "run", "waiting", "woken", "leaving", "exiting",
             "done", "failed"}
WriterPc == {"check", "waiting", "signalled", "late", "drain", "pop", "putback",
             "exitcheck", "done", "dead"}

TypeOK ==
    /\ MaxBuffers \in Limits
    /\ pc \in [Thread -> ThreadPc]
    /\ local \in [Thread -> {"none", "init", "full"}]
    /\ queued \in [Thread -> Nat]
    /\ QueuedBuffers \in Seq(Buffer)
    /\ FreeBuffers \in Nat /\ CurrentBuffers \in Nat
    /\ ThreadGlobalNumber \in Nat /\ ThreadExitNumber \in Nat
    /\ SegFaultObs \in BOOLEAN
    /\ writer \in WriterPc
    /\ timedOut \in BOOLEAN
    /\ memLimitQueue \in Nat /\ memLimitBufCount \in Nat
    /\ written \in Seq(Buffer)

\* main() has created the writer and goes on to its own first buffer.
Init ==
    /\ MaxBuffers \in Limits
    /\ pc = [t \in Thread |-> IF t = Main THEN "alloc" ELSE "off"]
    /\ local = [t \in Thread |-> "none"]
    /\ queued = [t \in Thread |-> 0]
    /\ QueuedBuffers = <<>>
    /\ FreeBuffers = 0 /\ CurrentBuffers = 0
    /\ ThreadGlobalNumber = 1 /\ ThreadExitNumber = 0
    /\ SegFaultObs = FALSE
    /\ writer = "check" /\ timedOut = FALSE
    /\ memLimitQueue = 0 /\ memLimitBufCount = 0
    /\ written = <<>>

-----------------------------------------------------------------------------
\* AllocateLocalBuffer, under FreeBufferLock.

FreeBufferLock == writer # "dead"

GotBuffer(t) ==
    /\ pc' = [pc EXCEPT ![t] = "run"]
    /\ local' = [local EXCEPT ![t] = "full"]

\* A recycled buffer.
AllocFree(t) ==
    /\ pc[t] = "alloc" /\ FreeBufferLock
    /\ FreeBuffers > 0
    /\ FreeBuffers' = FreeBuffers - 1
    /\ CurrentBuffers' = CurrentBuffers + 1
    /\ GotBuffer(t)
    /\ UNCHANGED <<MaxBuffers, queued, QueuedBuffers, countVars, SegFaultObs, writerVars>>

\* A new one, as long as the limit allows it.
AllocNew(t) ==
    /\ pc[t] = "alloc" /\ FreeBufferLock
    /\ FreeBuffers = 0 /\ CurrentBuffers # MaxBuffers
    /\ CurrentBuffers' = CurrentBuffers + 1
    /\ GotBuffer(t)
    /\ UNCHANGED <<MaxBuffers, queued, QueuedBuffers, FreeBuffers, countVars,
                   SegFaultObs, writerVars>>

\* pthread_cond_wait(FreeSignal), also after a wake-up that found the limit
\* reached again.
AllocWait(t) ==
    /\ FreeBufferLock
    /\ CurrentBuffers = MaxBuffers
    /\ pc[t] = "woken" \/ (pc[t] = "alloc" /\ FreeBuffers = 0)
    /\ pc' = [pc EXCEPT ![t] = "waiting"]
    /\ UNCHANGED <<MaxBuffers, local, queued, QueuedBuffers, poolVars, countVars,
                   SegFaultObs, writerVars>>

AllocWoken_uncounted(t) ==
    /\ pc[t] = "woken" /\ FreeBufferLock
    /\ CurrentBuffers # MaxBuffers
    /\ FreeBuffers > 0
    /\ FreeBuffers' = FreeBuffers - 1
    /\ GotBuffer(t)
    /\ UNCHANGED <<MaxBuffers, queued, QueuedBuffers, CurrentBuffers, countVars,
                   SegFaultObs, writerVars>>

\* The head of the list is taken without asking whether there is one.
AllocWoken(t) ==
    /\ pc[t] = "woken" /\ FreeBufferLock
    /\ CurrentBuffers # MaxBuffers
    /\ FreeBuffers > 0
    /\ FreeBuffers' = FreeBuffers - 1
    /\ CurrentBuffers' = CurrentBuffers + 1
    /\ GotBuffer(t)
    /\ UNCHANGED <<MaxBuffers, queued, QueuedBuffers, countVars, SegFaultObs, writerVars>>

-----------------------------------------------------------------------------
\* QueueBuffer

QueueBufferLock == writer # "check"

\* The writer is signalled when the queue was empty.
Signal == IF QueuedBuffers = <<>> /\ writer = "waiting"
          THEN writer' = "signalled" ELSE UNCHANGED writer

Enqueue_in_front(t, full) ==
    /\ QueueBufferLock
    /\ QueuedBuffers' =
          <<[id |-> t, pos |-> queued[t] + 1, full |-> full]>> \o QueuedBuffers
    /\ queued' = [queued EXCEPT ![t] = @ + 1]
    /\ Signal

Enqueue(t, full) ==
    /\ QueueBufferLock
    /\ QueuedBuffers' =
          Append(QueuedBuffers, [id |-> t, pos |-> queued[t] + 1, full |-> full])
    /\ queued' = [queued EXCEPT ![t] = @ + 1]
    /\ Signal

\* Running(t): t records events in a real buffer, of which it may fill another.
Running(t) == pc[t] = "run" /\ local[t] = "full"

\* QueueBuffer(true) of a buffer that is rather full: another one is allocated,
\* unless the program has failed, when events are discarded from then on.
QueueFull(t) ==
    /\ Running(t) /\ queued[t] < MaxQueued
    /\ Enqueue(t, TRUE)
    /\ IF SegFaultObs
       THEN local' = [local EXCEPT ![t] = "init"] /\ UNCHANGED pc
       ELSE /\ local' = [local EXCEPT ![t] = "none"]
            /\ pc' = [pc EXCEPT ![t] = "alloc"]
    /\ UNCHANGED <<MaxBuffers, poolVars, countVars, SegFaultObs, timedOut,
                   limitVars, written>>

\* QueueBuffer(true) of one that is rather empty: a copy is queued.
QueueCopy(t) ==
    /\ Running(t) /\ queued[t] < MaxQueued
    /\ Enqueue(t, FALSE)
    /\ UNCHANGED <<MaxBuffers, pc, local, poolVars, countVars, SegFaultObs, timedOut,
                   limitVars, written>>

-----------------------------------------------------------------------------
\* Threads come and go.

\* ThreadCreateActual: the child is counted before it exists, and counted as
\* exited when it could not be created.
Create(t, u) ==
    /\ pc[t] = "run" /\ pc[u] = "off"
    /\ ThreadGlobalNumber' = ThreadGlobalNumber + 1
    /\ \/ pc' = [pc EXCEPT ![u] = "alloc"] /\ UNCHANGED ThreadExitNumber
       \/ /\ pc' = [pc EXCEPT ![u] = "failed"]
          /\ ThreadExitNumber' = ThreadExitNumber + 1
    /\ UNCHANGED <<MaxBuffers, local, queued, QueuedBuffers, poolVars, SegFaultObs,
                   writerVars>>

\* CleanupThread and CleanupThreadMain: QueueBuffer(false), then the count.
LastBuffer(t) ==
    /\ IF local[t] = "init"
       THEN UNCHANGED <<queued, QueuedBuffers, writer, local>>
       ELSE Enqueue(t, TRUE) /\ local' = [local EXCEPT ![t] = "init"]
    /\ UNCHANGED <<MaxBuffers, poolVars, ThreadGlobalNumber, SegFaultObs, timedOut,
                   limitVars, written>>

CountExit(t) == ThreadExitNumber' = ThreadExitNumber + 1

CleanupThread_counts_first(t) ==
    \/ /\ pc[t] \in {"run", "leaving"}
       /\ CountExit(t)
       /\ pc' = [pc EXCEPT ![t] = "exiting"]
       /\ UNCHANGED <<MaxBuffers, local, queued, QueuedBuffers, poolVars,
                      ThreadGlobalNumber, SegFaultObs, writerVars>>
    \/ /\ pc[t] = "exiting"
       /\ LastBuffer(t)
       /\ pc' = [pc EXCEPT ![t] = "done"]
       /\ UNCHANGED ThreadExitNumber

CleanupThread(t) ==
    \/ /\ pc[t] \in {"run", "leaving"}
       /\ LastBuffer(t)
       /\ pc' = [pc EXCEPT ![t] = "exiting"]
       /\ UNCHANGED ThreadExitNumber
    \/ /\ pc[t] = "exiting"
       /\ CountExit(t)
       /\ pc' = [pc EXCEPT ![t] = "done"]
       /\ UNCHANGED <<MaxBuffers, local, queued, QueuedBuffers, poolVars,
                      ThreadGlobalNumber, SegFaultObs, writerVars>>

\* sigsegv_handler in a thread of the program: pthread_exit runs its cleanup.
SegFault(t) ==
    /\ Faults /\ pc[t] = "run"
    /\ SegFaultObs' = TRUE
    /\ pc' = [pc EXCEPT ![t] = "leaving"]
    /\ UNCHANGED <<MaxBuffers, local, queued, QueuedBuffers, poolVars, countVars,
                   writerVars>>

ThreadStep(t) ==
    \/ AllocFree(t) \/ AllocNew(t) \/ AllocWait(t) \/ AllocWoken(t)
    \/ QueueFull(t) \/ QueueCopy(t)
    \/ \E u \in Thread : Create(t, u)
    \/ CleanupThread(t) \/ SegFault(t)

-----------------------------------------------------------------------------
\* BackgroundThreadWriter, outer loop, with QueueBufferLock held: it goes on when
\* there is something to write, or everybody has exited after a timeout, and
\* otherwise waits.  After a timeout it does not: condRetVal is not reset, so the
\* loop runs on with the lock held.

AllExited == ThreadExitNumber = ThreadGlobalNumber

Check_needs_buffer ==
    /\ writer = "check"
    /\ \/ QueuedBuffers # <<>> /\ writer' = "drain"
       \/ QueuedBuffers = <<>> /\ ~timedOut /\ writer' = "waiting"
    /\ UNCHANGED <<MaxBuffers, threadVars, QueuedBuffers, poolVars, countVars,
                   SegFaultObs, timedOut, limitVars, written>>

Check ==
    /\ writer = "check"
    /\ \/ /\ QueuedBuffers # <<>> \/ (timedOut /\ AllExited)
          /\ writer' = "drain"
       \/ /\ QueuedBuffers = <<>> /\ ~timedOut
          /\ writer' = "waiting"
    /\ UNCHANGED <<MaxBuffers, threadVars, QueuedBuffers, poolVars, countVars,
                   SegFaultObs, timedOut, limitVars, written>>

\* Nobody queues anything for 30 s: everybody has exited, waits for a buffer, or
\* is just slow.
Quiet ==
    \A t \in Thread :
        \/ pc[t] \in {"off", "done", "failed", "waiting"}
        \/ Silence /\ pc[t] = "run"

Timeout ==
    /\ writer = "waiting" /\ Quiet
    /\ writer' = "late"
    /\ UNCHANGED <<MaxBuffers, threadVars, QueuedBuffers, poolVars, countVars,
                   SegFaultObs, timedOut, limitVars, written>>

\* The wait is over and the lock is held again.
Wake ==
    /\ writer \in {"signalled", "late"}
    /\ timedOut' = (writer = "late")
    /\ writer' = "check"
    /\ UNCHANGED <<MaxBuffers, threadVars, QueuedBuffers, poolVars, countVars,
                   SegFaultObs, limitVars, written>>

\* The inner loop, without a lock: the first buffer is written while it still is
\* in the queue.
Write ==
    /\ writer = "drain" /\ QueuedBuffers # <<>>
    /\ written' = Append(written, Head(QueuedBuffers))
    /\ writer' = "pop"
    /\ UNCHANGED <<MaxBuffers, threadVars, QueuedBuffers, poolVars, countVars,
                   SegFaultObs, timedOut, limitVars>>

Drained ==
    /\ writer = "drain" /\ QueuedBuffers = <<>>
    /\ writer' = "exitcheck"
    /\ UNCHANGED <<MaxBuffers, threadVars, QueuedBuffers, poolVars, countVars,
                   SegFaultObs, timedOut, limitVars, written>>

\* It is taken out under QueueBufferLock.  A copy is freed, and the loop goes on.
Pop ==
    /\ writer = "pop"
    /\ QueuedBuffers' = Tail(QueuedBuffers)
    /\ writer' = IF Head(QueuedBuffers).full THEN "putback" ELSE "drain"
    /\ UNCHANGED <<MaxBuffers, threadVars, poolVars, countVars, SegFaultObs, timedOut,
                   limitVars, written>>

\* Below the limit a buffer is recycled at once.
PutBack ==
    /\ writer = "putback" /\ CurrentBuffers # MaxBuffers
    /\ FreeBuffers' = FreeBuffers + 1
    /\ CurrentBuffers' = CurrentBuffers - 1
    /\ writer' = "drain"
    /\ UNCHANGED <<MaxBuffers, threadVars, QueuedBuffers, countVars, SegFaultObs,
                   timedOut, limitVars, written>>

HoldBack_counts_on ==
    /\ writer = "putback" /\ CurrentBuffers = MaxBuffers
    /\ QueuedBuffers # <<>>
    /\ memLimitBufCount' = memLimitBufCount + 1
    /\ memLimitQueue' = memLimitQueue + 1
    /\ writer' = "drain"
    /\ UNCHANGED <<MaxBuffers, threadVars, QueuedBuffers, poolVars, countVars,
                   SegFaultObs, timedOut, written>>

\* At the limit it is held back until the queue is empty.
HoldBack ==
    /\ writer = "putback" /\ CurrentBuffers = MaxBuffers
    /\ QueuedBuffers # <<>>
    /\ memLimitBufCount' = IF memLimitQueue = 0 THEN 1 ELSE memLimitBufCount + 1
    /\ memLimitQueue' = memLimitQueue + 1
    /\ writer' = "drain"
    /\ UNCHANGED <<MaxBuffers, threadVars, QueuedBuffers, poolVars, countVars,
                   SegFaultObs, timedOut, written>>

LimitEnds_forgets_last ==
    /\ writer = "putback" /\ CurrentBuffers = MaxBuffers
    /\ QueuedBuffers = <<>> /\ memLimitQueue > 0
    /\ FreeBuffers' = FreeBuffers + memLimitQueue + 1
    /\ CurrentBuffers' = MaxBuffers - memLimitBufCount
    /\ memLimitQueue' = 0
    /\ pc' = [t \in Thread |-> IF pc[t] = "waiting" THEN "woken" ELSE pc[t]]
    /\ writer' = "drain"
    /\ UNCHANGED <<MaxBuffers, local, queued, QueuedBuffers, countVars, SegFaultObs,
                   timedOut, memLimitBufCount, written>>

\* Then all are recycled and the waiting threads woken.
LimitEnds ==
    /\ writer = "putback" /\ CurrentBuffers = MaxBuffers
    /\ QueuedBuffers = <<>> /\ memLimitQueue > 0
    /\ FreeBuffers' = FreeBuffers + memLimitQueue + 1
    /\ CurrentBuffers' = MaxBuffers - (memLimitBufCount + 1)
    /\ memLimitQueue' = 0
    /\ pc' = [t \in Thread |-> IF pc[t] = "waiting" THEN "woken" ELSE pc[t]]
    /\ writer' = "drain"
    /\ UNCHANGED <<MaxBuffers, local, queued, QueuedBuffers, countVars, SegFaultObs,
                   timedOut, memLimitBufCount, written>>

\* When none was held back, memLimitQueueTail is NULL and is written through: the
\* handler ends the writer, with FreeBufferLock held.
LimitCrash ==
    /\ writer = "putback" /\ CurrentBuffers = MaxBuffers
    /\ QueuedBuffers = <<>> /\ memLimitQueue = 0
    /\ SegFaultObs' = TRUE
    /\ writer' = "dead"
    /\ UNCHANGED <<MaxBuffers, threadVars, QueuedBuffers, poolVars, countVars,
                   timedOut, limitVars, written>>

\* Under QueueBufferLock, which is kept when the loop starts again.
ExitCheck ==
    /\ writer = "exitcheck"
    /\ writer' = IF AllExited /\ QueuedBuffers = <<>> THEN "done" ELSE "check"
    /\ timedOut' = FALSE
    /\ UNCHANGED <<MaxBuffers, threadVars, QueuedBuffers, poolVars, countVars,
                   SegFaultObs, limitVars, written>>

BackgroundThreadWriter ==
    \/ Check \/ Timeout \/ Wake \/ Write \/ Drained \/ Pop
    \/ PutBack \/ HoldBack \/ LimitEnds \/ LimitCrash \/ ExitCheck

Next == BackgroundThreadWriter \/ \E t \in Thread : ThreadStep(t)

Spec == Init /\ [][Next]_vars

\* Every thread is scheduled; the program's threads end after MaxQueued buffers.
Fairness ==
    /\ WF_vars(BackgroundThreadWriter)
    /\ \A t \in Thread : WF_vars(ThreadStep(t))

FairSpec == Spec /\ Fairness

-----------------------------------------------------------------------------
(***************************************************************************)
(* Properties                                                              *)
(***************************************************************************)

\* The buffers that have been queued and not been written yet.
Unwritten == IF writer = "pop" THEN Tail(QueuedBuffers) ELSE QueuedBuffers

Trace == written \o Unwritten

\* The trace holds every thread's buffers once each and in the order in which it
\* filled them, however the threads interleave: what has been written and what is
\* queued together are all it has queued (the reader of the trace relies on it).
BuffersInOrder ==
    /\ \A i, j \in 1 .. Len(Trace) :
          i < j /\ Trace[i].id = Trace[j].id => Trace[i].pos < Trace[j].pos
    /\ \A t \in Thread : \A n \in 1 .. queued[t] :
          \E i \in 1 .. Len(Trace) : Trace[i].id = t /\ Trace[i].pos = n
    /\ \A i \in 1 .. Len(Trace) : Trace[i].pos <= queued[Trace[i].id]

\* A thread that waited for a buffer finds one when it goes on (the question the
\* comment in AllocateLocalBuffer asks), and no thread sleeps on when there are
\* buffers again.
WaiterFindsBuffer ==
    \A t \in Thread :
        /\ pc[t] = "woken" /\ CurrentBuffers # MaxBuffers => FreeBuffers > 0
        /\ pc[t] = "waiting" => CurrentBuffers = MaxBuffers

\* The buffers in use: those threads record in, those queued at full size, and
\* those the writer holds.
Recording == {t \in Thread : local[t] = "full"}
FullSize(q) == {i \in 1 .. Len(q) : q[i].full}
Held == memLimitQueue + (IF writer \in {"putback", "dead"} THEN 1 ELSE 0)

\* CurrentBuffers counts the buffers in use, through all the places a buffer passes,
\* although at the end of a limit it is computed afresh; so the limit is kept, and
\* the count is positive when the writer's assert asks (PutBack).
BuffersConserved ==
    /\ CurrentBuffers =
          Cardinality(Recording) + Cardinality(FullSize(QueuedBuffers)) + Held
    /\ CurrentBuffers + FreeBuffers <= MaxBuffers

\* The writer ends only when every thread has exited and all that was queued is in
\* the trace.
EndsComplete ==
    writer = "done" =>
        /\ \A t \in Thread : pc[t] \in {"off", "done", "failed"}
        /\ QueuedBuffers = <<>>

\* The writer ends, provided that the limit is out of reach and the threads of the
\* program do, although nobody signals it that the last of them has been counted.
Unlimited == MaxBuffers > Cardinality(Thread) * (MaxQueued + 1)

TraceEnds == Unlimited ~> writer = "done"

\* At the limit the program's threads are "paused while writing", and go on later:
\* the writer survives the limit.
WriterSurvivesLimit == writer # "dead"

=============================================================================
