----------------------------- MODULE EventQueue -----------------------------
(***************************************************************************)
(* The way of the events from a traced program to the middle layer: the    *)
(* runtime stores them, a thread's in its own buffers, and numbers syncs   *)
(* and barriers; EventLib reads the file of buffers, leaving out those of  *)
(* blocked contexts to come back to them; EventList puts the contexts'     *)
(* events into one order, in which syncs and barriers come by their        *)
(* numbers and a thread starts after its create.                           *)
(*                                                                         *)
(* The traced program is external: threads that create and join others,    *)
(* synchronise, and meet at a barrier.  The middle layer, which takes each *)
(* event that is returned, is here no more than its call of readyEvents.   *)
(***************************************************************************)
EXTENDS Integers, Sequences, FiniteSets, SequencesExt, FiniteSetsExt

CONSTANTS
    Context,          \* the contech ids of the threads, 0 of the main thread
    Addr,             \* what they synchronise on
    Programs,         \* the kinds of programs that are traced
    ReturnsAfterJoin  \* may a thread return right after it has joined another?

\* A kind of program: its threads, who of them creates others and who meets at the
\* barrier, whether it has blocks, long runs of blocks, syncs and condition waits, on which
\* addresses, and the bounds: how many of these and of entered barriers there are, and how
\* many buffers get full.
ASSUME EventQueueAssumption ==
    /\ Context \subseteq Nat /\ 0 \in Context /\ IsFiniteSet(Context)
    /\ Programs \subseteq [threads : SUBSET Context, creators : SUBSET Context,
                           party : SUBSET Context,
                           does : SUBSET {"block", "long", "sync", "wait"},
                           addrs : SUBSET Addr, maxEvents : Nat, maxBuffers : Nat]
    /\ ReturnsAfterJoin \in BOOLEAN

VARIABLES
    \* the program and the runtime
    plan,          \* the kind of the program
    life,          \* per thread: "off", "run", "barrier" or "exited"
    creator,       \* per thread: who created it
    children,      \* per thread: those it has created and not joined
    arrived,       \* per thread: how often it has come to the barrier
    order,         \* __ctGlobalOrderNumber and __ctGlobalBarrierNumber
    events,        \* events that count for maxEvents
    buffers,       \* buffers that count for maxBuffers
    buffer,        \* per thread: its local buffer
    file,          \* the trace: a sequence of buffers
    \* EventLib
    pos,           \* the buffer that is read, and the next event in it
    skipList,      \* per context: its buffers that have not been read
    skipSet,       \* contexts that are blocked
    list,          \* EventList, and the call of getNextContechEvent that runs
    \* the middle layer
    pc,            \* "program", "scan", "read", "main", "end" or "aborted"
    event,         \* the event that has been returned
    got            \* history, per context: how many have been returned

program == <<plan, life, creator, children, arrived, order, events, buffers, buffer,
             file>>
lib     == <<pos, skipList, skipSet>>
vars    == <<program, lib, list, pc, event, got>>

None  == -1            \* end()
Never == 1000          \* ~0: no ticket is as high
NoEvent == [kind |-> "none"]

-----------------------------------------------------------------------------
\* The runtime.
Store(c, e) == buffer' = [buffer EXCEPT ![c] = Append(@, e)]

Counted == events < plan.maxEvents /\ events' = events + 1

\* The new thread stores the other half of the pair in a buffer of its own.
ThreadCreate(p, c) ==
    /\ p \in plan.creators /\ life[p] = "run"
    /\ c = Min({d \in plan.threads : life[d] = "off"})
    /\ life' = [life EXCEPT ![c] = "run"]
    /\ creator' = [creator EXCEPT ![c] = p]
    /\ children' = [children EXCEPT ![p] = @ \cup {c}]
    /\ buffer' = [buffer EXCEPT ![p] = Append(@, [kind |-> "create", other |-> c]),
                                ![c] = <<[kind |-> "start", other |-> p]>>]
    /\ UNCHANGED <<arrived, order, events, buffers, file>>

LastKind(c) == IF buffer[c] = <<>> THEN "none" ELSE Last(buffer[c]).kind

\* Blocks that follow each other count as one.  A long run of them is one in which the
\* middle layer splits the task.
BasicBlock(c, long) ==
    /\ life[c] = "run" /\ Counted
    /\ "block" \in plan.does /\ LastKind(c) # "block"
    /\ long => "long" \in plan.does
    /\ Store(c, [kind |-> "block", long |-> long])
    /\ UNCHANGED <<life, creator, children, arrived, order, buffers, file>>

StoreSync(c, a, w) ==
    /\ life[c] = "run" /\ Counted
    /\ Store(c, [kind |-> "sync", addr |-> a, wait |-> w, num |-> order.sync])
    /\ order' = [order EXCEPT !.sync = @ + 1]
    /\ UNCHANGED <<life, creator, children, arrived, buffers, file>>

StoreBarrierEnter(c) ==
    /\ c \in plan.party /\ life[c] = "run" /\ Counted
    /\ life' = [life EXCEPT ![c] = "barrier"]
    /\ arrived' = [arrived EXCEPT ![c] = @ + 1]
    /\ Store(c, [kind |-> "enter", num |-> order.barrier])
    /\ order' = [order EXCEPT !.barrier = @ + 1]
    /\ UNCHANGED <<creator, children, buffers, file>>

\* External: nobody leaves before everyone has come.
StoreBarrierLeave(c) ==
    /\ life[c] = "barrier" /\ \A d \in plan.party : arrived[d] >= arrived[c]
    /\ life' = [life EXCEPT ![c] = "run"]
    /\ Store(c, [kind |-> "leave", num |-> order.barrier])
    /\ order' = [order EXCEPT !.barrier = @ + 1]
    /\ UNCHANGED <<creator, children, arrived, events, buffers, file>>

\* pthread_join returns when the thread is done and its last buffer is queued.  Only who
\* has created a thread joins it.
ThreadJoin(p, c) ==
    /\ life[p] = "run" /\ c \in children[p] /\ life[c] = "exited"
    /\ children' = [children EXCEPT ![p] = @ \ {c}]
    /\ Store(p, [kind |-> "join", other |-> c])
    /\ UNCHANGED <<life, creator, arrived, order, events, buffers, file>>

\* A buffer that is nearly full is queued at the end of a basic block.
QueueBuffer(c) ==
    /\ life[c] = "run" /\ LastKind(c) = "block" /\ buffers < plan.maxBuffers
    /\ buffers' = buffers + 1
    /\ buffer' = [buffer EXCEPT ![c] = <<>>]
    /\ file' = Append(file, [ctid |-> c, events |-> buffer[c]])
    /\ UNCHANGED <<life, creator, children, arrived, order, events>>

CleanupThread(c) ==
    /\ life[c] = "run"
    /\ c = 0 \/ ReturnsAfterJoin \/ LastKind(c) # "join"
    /\ life' = [life EXCEPT ![c] = "exited"]
    /\ buffer' = [buffer EXCEPT ![c] = <<>>]
    /\ file' = Append(file,
          [ctid |-> c, events |-> Append(buffer[c], [kind |-> "exit", other |-> creator[c]])])
    /\ UNCHANGED <<creator, children, arrived, order, events, buffers>>

Program ==
    /\ pc = "program"
    /\ \E c \in plan.threads :
          \/ StoreBarrierEnter(c) \/ StoreBarrierLeave(c)
          \/ QueueBuffer(c) \/ CleanupThread(c)
          \/ \E long \in BOOLEAN : BasicBlock(c, long)
          \/ \E a \in plan.addrs, kind \in plan.does \cap {"sync", "wait"} :
                StoreSync(c, a, kind = "wait")
          \/ \E d \in plan.threads : (life[d] = "off" /\ ThreadCreate(c, d)) \/ ThreadJoin(c, d)
    /\ UNCHANGED <<plan, lib, list, pc, event, got>>

\* A buffer is known by its place in the file; the first one of a set is the one at the
\* front of the code's list.
BuffersOf(c) == {b \in 1 .. Len(file) : file[b].ctid = c}

\* The middle layer runs on the complete trace; initBufList finds its buffers.
BeginMiddle ==
    /\ pc = "program" /\ \A c \in Context : life[c] \in {"off", "exited"}
    /\ skipList' = [c \in {file[b].ctid : b \in 1 .. Len(file)} |-> BuffersOf(c)]
    /\ pc' = "scan"
    /\ UNCHANGED <<program, pos, skipSet, list, event, got>>

-----------------------------------------------------------------------------
\* EventLib: where it reads.  A buffer is taken if it is the next of a context that is
\* not blocked; otherwise reading goes on at the first buffer that can be taken.
InBuffer   == pos.buf > 0 /\ pos.event <= Len(file[pos.buf].events)
NextHeader == pos.buf + 1

Unblocked   == {c \in DOMAIN skipList : c \notin skipSet /\ skipList[c] # {}}
EarliestPos == Min({Min(skipList[c]) : c \in Unblocked})

Valid_read_again(b) == b <= Len(file) /\ file[b].ctid \in Unblocked

Valid(b) ==
    /\ b <= Len(file)
    /\ file[b].ctid \in Unblocked /\ Min(skipList[file[b].ctid]) = b

\* An event has a place in the file; the header of a buffer is an event like others.
EventAt(p) ==
    LET c == file[p[1]].ctid
        e == file[p[1]].events[p[2]]
    IN  IF p[2] = 0 THEN [kind |-> "buffer", ctid |-> c]
        ELSE [f \in DOMAIN e \cup {"ctid"} |-> IF f = "ctid" THEN c ELSE e[f]]

\* fseek to the header of buffer b.
Before(b) == [buf |-> b - 1, event |-> 1 + IF b = 1 THEN 0 ELSE Len(file[b - 1].events)]

AtEnd ==
    \/ NextHeader > Len(file)
    \/ \A c \in DOMAIN skipList : c \notin skipSet /\ skipList[c] = {}

\* createContechEvent at a place where no event can be read.  At the end of the file, or
\* when every context has finished, it returns NULL, which getNextContechEvent passes on;
\* one that was called by itself uses it.
Seek ==
    /\ ~InBuffer /\ ~Valid(NextHeader)
    /\ IF Unblocked # {}
       THEN pos' = Before(EarliestPos) /\ UNCHANGED pc
       ELSE pc' = (IF AtEnd /\ ~list.recursive THEN "end" ELSE "aborted") /\ UNCHANGED pos
    /\ UNCHANGED <<skipList, skipSet, list, event, got>>

-----------------------------------------------------------------------------
\* EventList: maps of queues, in the order of the contexts.
Begin(q)     == IF DOMAIN q = {} THEN None ELSE Min(DOMAIN q)
After(q, c)  == Begin([d \in {d \in DOMAIN q : d > c} |-> q[d]])
Without(q, c) == [d \in DOMAIN q \ {c} |-> q[d]]
Put(q, c, s) == [d \in DOMAIN q \cup {c} |-> IF d = c THEN s ELSE q[d]]

Ticketed(e) == e.kind \in {"sync", "enter", "leave"}
Counter(e)  == IF e.kind = "sync" THEN list.ticketNum ELSE list.barrierNum
Counting(l, e) ==
    IF e.kind = "sync" THEN [l EXCEPT !.ticketNum = @ + 1] ELSE [l EXCEPT !.barrierNum = @ + 1]

\* e is returned, with the assert that its context is not blocked.
Return(e) ==
    /\ event' = e
    /\ pc' = IF e.ctid \in skipSet' THEN "aborted" ELSE "main"
    /\ got' = [got EXCEPT ![e.ctid] = @ + 1]

-----------------------------------------------------------------------------
\* The first loop of getNextContechEvent looks for an event in the queues.
ScanIsOver ==
    \/ DOMAIN list.queuedEvents = {}
    \/ list.ticketNum < list.minQueuedTicket /\ ~list.resetMinTicket

ScanEnds ==
    /\ ScanIsOver
    /\ pc' = "read"
    /\ UNCHANGED <<lib, list, event, got>>

Queue == list.queuedEvents[list.eventQueueCurrent]

ScanEmpty ==
    LET next == After(list.queuedEvents, list.eventQueueCurrent)
        rest == Without(list.queuedEvents, list.eventQueueCurrent)
    IN  /\ ~ScanIsOver /\ Queue = <<>>
        /\ list' = [list EXCEPT !.queuedEvents = rest,
                                !.eventQueueCurrent = IF next = None THEN Begin(rest) ELSE next]
        /\ UNCHANGED <<lib, pc, event, got>>

ScanPlain(e) ==
    /\ ~Ticketed(e)
    /\ list' = [list EXCEPT !.queuedEvents[list.eventQueueCurrent] = Tail(@)]
    /\ UNCHANGED lib
    /\ Return(e)

ScanTurn(e) ==
    /\ Ticketed(e) /\ e.num = Counter(e)
    /\ list' = [Counting(list, e) EXCEPT
                   !.queuedEvents[list.eventQueueCurrent] = Tail(@),
                   !.eventQueueCurrent = Begin(list.queuedEvents)]
    /\ skipSet' = skipSet \ {e.ctid}
    /\ UNCHANGED <<pos, skipList>>
    /\ Return(e)

ScanBlocked_goes_round(e) ==
    LET next == After(list.queuedEvents, list.eventQueueCurrent)
    IN  /\ Ticketed(e) /\ e.num # Counter(e)
        /\ skipSet' = skipSet \cup {e.ctid}
        /\ list' = [list EXCEPT !.eventQueueCurrent =
                                 IF next = None THEN Begin(list.queuedEvents) ELSE next]
        /\ UNCHANGED <<pos, skipList, pc, event, got>>

ScanBlocked(e) ==
    LET next == After(list.queuedEvents, list.eventQueueCurrent)
        low  == IF e.kind = "sync" THEN Min({e.num, list.currMinTicket}) ELSE list.currMinTicket
    IN  /\ Ticketed(e) /\ e.num # Counter(e)
        /\ skipSet' = skipSet \cup {e.ctid}
        /\ \/ /\ next # None
              /\ list' = [list EXCEPT !.currMinTicket = low, !.eventQueueCurrent = next]
              /\ UNCHANGED pc
           \/ /\ next = None
              /\ list' = [list EXCEPT
                             !.currMinTicket = low,
                             !.eventQueueCurrent = Begin(list.queuedEvents),
                             !.resetMinTicket = ~@,
                             !.minQueuedTicket = IF e.kind # "sync" THEN @
                                                 ELSE IF list.resetMinTicket THEN low ELSE 0]
              /\ pc' = "read"
        /\ UNCHANGED <<pos, skipList, event, got>>

Scan ==
    /\ pc = "scan"
    /\ \/ ScanEnds
       \/ ScanEmpty
       \/ /\ ~ScanIsOver /\ Queue # <<>>
          /\ ScanPlain(Head(Queue)) \/ ScanTurn(Head(Queue)) \/ ScanBlocked(Head(Queue))
    /\ UNCHANGED program

-----------------------------------------------------------------------------
\* The rest of getNextContechEvent reads an event from the file.

\* An event that cannot be returned yet is kept, and the function calls itself.
CallAgain(e, l) ==
    /\ skipSet' = skipSet \cup {e.ctid}
    /\ list' = [l EXCEPT !.currMinTicket = Never, !.recursive = TRUE]
    /\ pc' = "scan"
    /\ UNCHANGED <<event, got>>

ReadTicketed_one_early(e) ==
    /\ Ticketed(e)
    /\ \/ /\ e.num > Counter(e) + 1
          /\ LET q == Put(list.queuedEvents, e.ctid, <<e>>)
             IN  CallAgain(e, [list EXCEPT !.queuedEvents = q,
                                           !.eventQueueCurrent = Begin(q),
                                           !.resetMinTicket = TRUE,
                                           !.minQueuedTicket = IF e.kind = "sync" THEN 0 ELSE @])
       \/ /\ e.num <= Counter(e) + 1
          /\ list' = Counting(list, e)
          /\ UNCHANGED skipSet
          /\ Return(e)

ReadTicketed(e) ==
    /\ Ticketed(e)
    /\ \/ /\ e.num > Counter(e)
          /\ LET q == Put(list.queuedEvents, e.ctid, <<e>>)
             IN  CallAgain(e, [list EXCEPT !.queuedEvents = q,
                                           !.eventQueueCurrent = Begin(q),
                                           !.resetMinTicket = TRUE,
                                           !.minQueuedTicket = IF e.kind = "sync" THEN 0 ELSE @])
       \/ /\ e.num <= Counter(e)
          /\ list' = Counting(list, e)
          /\ UNCHANGED skipSet
          /\ Return(e)

\* An empty queue in waitingEvents stands for the mark that the create has come.
ReadStart(e) ==
    /\ e.kind = "start"
    /\ IF e.ctid \in DOMAIN list.waitingEvents
       THEN /\ list' = [list EXCEPT !.waitingEvents = Without(@, e.ctid)]
            /\ UNCHANGED skipSet
            /\ Return(e)
       ELSE CallAgain(e, [list EXCEPT !.waitingEvents = Put(@, e.ctid, <<e>>)])

ReadPlain(e) ==
    /\ ~Ticketed(e) /\ e.kind # "start"
    /\ UNCHANGED <<skipSet, list>>
    /\ Return(e)

Waiting(c) == c \in DOMAIN list.waitingEvents /\ list.waitingEvents[c] # <<>>

\* Events of a context with a queue go there.
Dispatch(e) ==
    \/ /\ e.ctid \in DOMAIN list.queuedEvents
       /\ list' = [list EXCEPT !.queuedEvents[e.ctid] = Append(@, e)]
       /\ UNCHANGED <<skipSet, pc, event, got>>
    \/ /\ e.ctid \notin DOMAIN list.queuedEvents /\ Waiting(e.ctid)
       /\ list' = [list EXCEPT !.waitingEvents[e.ctid] = Append(@, e)]
       /\ UNCHANGED <<skipSet, pc, event, got>>
    \/ /\ e.ctid \notin DOMAIN list.queuedEvents /\ ~Waiting(e.ctid)
       /\ ReadTicketed(e) \/ ReadStart(e) \/ ReadPlain(e)

ReadHeader ==
    LET c == file[NextHeader].ctid
    IN  /\ ~InBuffer /\ Valid(NextHeader)
        /\ pos' = [buf |-> NextHeader, event |-> 1]
        /\ skipList' = [skipList EXCEPT ![c] = @ \ {NextHeader}]
        /\ Dispatch(EventAt(<<NextHeader, 0>>))

ReadEvent ==
    /\ InBuffer
    /\ pos' = [pos EXCEPT !.event = @ + 1]
    /\ UNCHANGED skipList
    /\ Dispatch(EventAt(<<pos.buf, pos.event>>))

Read == pc = "read" /\ (Seek \/ ReadHeader \/ ReadEvent) /\ UNCHANGED program

-----------------------------------------------------------------------------
\* The middle layer has taken the event.  For a create that is a call of readyEvents:
\* the thread's start may come, or what it has waiting goes to the queues.
readyEvents(c) ==
    \/ /\ c \notin DOMAIN list.waitingEvents
       /\ list' = [list EXCEPT !.waitingEvents = Put(@, c, <<>>),
                               !.currMinTicket = Never, !.recursive = FALSE]
       /\ UNCHANGED skipSet
    \/ /\ c \in DOMAIN list.waitingEvents
       /\ LET q == Put(list.queuedEvents, c, list.waitingEvents[c])
          IN  list' = [list EXCEPT !.queuedEvents = q,
                                   !.eventQueueCurrent = Begin(q),
                                   !.waitingEvents = Without(@, c),
                                   !.currMinTicket = Never, !.recursive = FALSE]
       /\ skipSet' = skipSet \ {c}

Consume ==
    /\ pc = "main"
    /\ \/ event.kind = "create" /\ readyEvents(event.other)
       \/ /\ event.kind # "create"
          /\ list' = [list EXCEPT !.currMinTicket = Never, !.recursive = FALSE]
          /\ UNCHANGED skipSet
    /\ pc' = "scan"
    /\ event' = NoEvent
    /\ UNCHANGED <<program, pos, skipList, got>>

-----------------------------------------------------------------------------
Init ==
    /\ plan \in Programs
    /\ life = [c \in Context |-> IF c = 0 THEN "run" ELSE "off"]
    /\ creator = [c \in Context |-> 0]
    /\ children = [c \in Context |-> {}]
    /\ arrived = [c \in Context |-> 0]
    /\ order = [sync |-> 0, barrier |-> 0]
    /\ events = 0 /\ buffers = 0
    /\ buffer = [c \in Context |-> <<>>]
    /\ file = <<>>
    /\ pos = [buf |-> 0, event |-> 1]
    /\ skipList = <<>> /\ skipSet = {}
    /\ list = [queuedEvents |-> <<>>, waitingEvents |-> <<>>, eventQueueCurrent |-> None,
               ticketNum |-> 0, barrierNum |-> 0, minQueuedTicket |-> 0,
               resetMinTicket |-> FALSE, currMinTicket |-> Never, recursive |-> FALSE]
    /\ pc = "program"
    /\ event = NoEvent
    /\ got = [c \in Context |-> 0]

Next == Program \/ BeginMiddle \/ Scan \/ Read \/ Consume

Spec == Init /\ [][Next]_vars

-----------------------------------------------------------------------------
\* The places of a context's events, headers included; in the file they are in the
\* order in which the context stored them.
PlacesOf(c) == UNION {{b} \X (0 .. Len(file[b].events)) : b \in BuffersOf(c)}

\* How many events its context had stored when it had stored the one at p.
Nth(p) ==
    Cardinality({q \in PlacesOf(file[p[1]].ctid) :
                    q[1] < p[1] \/ (q[1] = p[1] /\ q[2] <= p[2])})

Delivered == \A c \in Context : got[c] = Cardinality(PlacesOf(c))

\* What the first loop of getNextContechEvent is for (eventQ.cpp:172): every event that
\* was stored has been returned when there are no more, whatever queue it was in.
AllDelivered == pc = "end" => Delivered

\* Queued, waiting, skipped or read at once: the events of a context are returned in the
\* order in which it stored them, and none twice.
ProgramOrder ==
    pc = "main" =>
        \E p \in PlacesOf(event.ctid) : event = EventAt(p) /\ Nth(p) = got[event.ctid]

Returned(c) == {EventAt(p) : p \in {p \in PlacesOf(c) : Nth(p) <= got[c]}}

\* Syncs and barriers of all contexts are returned by their numbers, without a gap, and
\* a thread starts after its create.
GlobalOrder ==
    pc = "main" =>
        /\ event.kind = "sync" => event.num = list.ticketNum - 1
        /\ event.kind \in {"enter", "leave"} => event.num = list.barrierNum - 1
        /\ event.kind = "start" =>
              \E e \in Returned(event.other) : e.kind = "create" /\ e.other = event.ctid

=============================================================================
