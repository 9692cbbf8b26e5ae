------------------------------ MODULE Simulator ------------------------------
(***************************************************************************)
(* The whole simulator, cycle by cycle: what MigratoryProtocol leaves to   *)
(* chance is decided here as the code decides it.  In every cycle the      *)
(* caches, the managers, the interconnect and the memory have their turns, *)
(* in this order; hits, links and the memory take their number of cycles;  *)
(* messages travel on the links of Network, or on the Bus; a full set      *)
(* gives up its least recently used line.  Every step of a manager, of the *)
(* memory or of a cache that does something is the step of                 *)
(* MigratoryProtocol with that name, so its variables keep their meaning.  *)
(* The task manager is replaced by one sequence of operations for each     *)
(* processor.                                                              *)
(***************************************************************************)
EXTENDS MigratoryProtocol, Sequences

S == INSTANCE SequencesExt

CONSTANTS
    numa,             \* memory is spread over the nodes
    unidirectional,   \* a link of its own for each direction
    BUS_DLY,          \* cycles a message takes on a link
    HIT_LATENCY,      \* cycles a hit takes
    latency,          \* cycles the memory takes
    Traces            \* the traces to be simulated; in each, the operations
                      \* [type |-> "read" or "write", addr |-> a] of each processor

VARIABLES
    trace,            \* per processor, what is left of it
    hit_countdown,    \* per processor, cycles until its hit is over
    cache_done,       \* per processor, its cache has seen the end of the trace
    recency,          \* per processor, the blocks in its lines, oldest first
    inbox,            \* per receiver, the messages handed to it
    interconnects, current, aborted,   \* the links, see Network
    bus,              \* the Bus: its queue and its two countdowns
    count,            \* per block, cycles until the memory has read it
    turn,             \* whose turn it is in this cycle
    ndone             \* caches that were done when their turn came

machineVars == <<trace, hit_countdown, cache_done, recency, inbox, interconnects,
                 current, aborted, bus, count>>
simVars == <<vars, machineVars, turn, ndone>>

nprocs == Cardinality(Proc)     \* Proc is 0 .. nprocs - 1, and MEM is nprocs

\* set_nproc: the nodes are 0 .. nproc, the processors and without numa the memory.
nproc == IF numa THEN nprocs - 1 ELSE nprocs

N == INSTANCE Network WITH
        nproc <- nproc,
        received <- inbox, sent <- 0, MaxMessages <- 0

OnBus == Interconnect = "bus"

-----------------------------------------------------------------------------
\* Sending.  What a step of MigratoryProtocol has put into net goes into the links,
\* in the order in which the code sends it: a request to the memory and then to the
\* processors by number, an acknowledgement before the block.
Posted == BagToSet(net' (-) net)

rank(m) ==
    IF m.type = "data" THEN nprocs + 1 ELSE IF m.receiver = MEM THEN 0 ELSE m.receiver + 1

last(ms) == CHOOSE m \in ms : \A k \in ms : rank(k) <= rank(m)

node(m) == N!place(m.sender, m.addr)

through_links(ms) ==
    /\ interconnects' =
          S!MapThenFoldSet(LAMBDA m, links : N!forwarded(links, node(m), m),
                         interconnects, LAMBDA m : m, last, ms)
    /\ aborted' = (\E m \in ms : N!hop(interconnects, node(m), m) = N!NoNode)
    /\ UNCHANGED bus

\* The copies ms of messages are handed to their receivers.
handed(box, ms) ==
    [r \in Proc \cup {MEM} |-> box[r] \o S!SetToSeq({m \in ms : m.receiver = r})]

minus_one(n) == IF n = 0 THEN 0 ELSE n - 1

\* Bus::broadcast queues a request, with a copy for everybody, or a block;
\* Bus::send_ack hands the acknowledgement over at once.
on_the_bus(ms, box) ==
    LET acks == {m \in ms : m.type = "ack"}
        rest == ms \ acks
    IN  /\ bus' = [bus EXCEPT !.incomming = IF rest = {} THEN @ ELSE Append(@, rest),
                              !.acks = IF acks = {} THEN @ ELSE minus_one(@)]
        /\ inbox' = handed(box, acks)
        /\ UNCHANGED <<interconnects, aborted>>

\* The caches check_directory looks into: with numa not that of the last processor.
InDirectoryCheck == {p \in Proc : p < nproc}

\* Those it looks into when ms is sent.
Checked(ms) ==
    IF \/ ms # {} /\ Interconnect \in {"mesh", "torus"}
       \/ Interconnect = "crossbar" /\ \E m \in ms : m.type = "ack"
    THEN InDirectoryCheck ELSE {}

\* find_line moves the line of block a, if there is one, to the end of the list.
Looked(ps, a) ==
    recency' = [p \in Proc |->
        LET kept == SelectSeq(recency[p],
                              LAMBDA b : line'[p][b].valid /\ ~(p \in ps /\ b = a))
        IN  IF p \in ps /\ line'[p][a].valid THEN Append(kept, a) ELSE kept]

\* A step of MigratoryProtocol about block a, by processors ps, after which the
\* receivers have box.
Sends(box, ps, a) ==
    /\ IF OnBus THEN on_the_bus(Posted, box) ELSE through_links(Posted) /\ inbox' = box
    /\ Looked(ps \cup Checked(Posted), a)
    /\ UNCHANGED current

-----------------------------------------------------------------------------
\* Cache::event

CacheAt(p) == turn = <<"cache", p>>

NextCache(p) ==
    turn' = IF p + 1 \in Proc THEN <<"cache", p + 1>> ELSE <<"manager", 0>>

\* It is done, waits for its manager or counts down a hit.
CacheWaits(p) ==
    /\ CacheAt(p)
    /\ cache_done[p] \/ coherence_request_pending[p] \/ hit_countdown[p] > 1
    /\ ndone' = IF cache_done[p] THEN ndone + 1 ELSE ndone
    /\ hit_countdown' = [hit_countdown EXCEPT ![p] = minus_one(@)]
    /\ NextCache(p)
    /\ UNCHANGED <<vars, trace, cache_done, recency, inbox, interconnects, current,
                   aborted, bus, count>>

CacheReady(p) ==
    /\ CacheAt(p)
    /\ ~cache_done[p] /\ ~coherence_request_pending[p] /\ hit_countdown[p] <= 1

\* The trace has nothing for it; it is done when there is nothing for anybody.
CacheIdles(p) ==
    /\ CacheReady(p) /\ trace[p] = <<>>
    /\ IF hit_pending[p] THEN Idle(p) ELSE UNCHANGED vars
    /\ hit_countdown' = [hit_countdown EXCEPT ![p] = 0]
    /\ cache_done' = [cache_done EXCEPT ![p] = \A q \in Proc : trace[q] = <<>>]
    /\ NextCache(p)
    /\ UNCHANGED <<trace, recency, inbox, interconnects, current, aborted, bus, count, ndone>>

CacheIssues(p) ==
    /\ CacheReady(p) /\ trace[p] # <<>>
    /\ \E a \in Addr :
          /\ \/ /\ Head(trace[p]) = [type |-> "read", addr |-> a]
                /\ ReadHit(p, a) \/ ReadMiss(p, a)
             \/ /\ Head(trace[p]) = [type |-> "write", addr |-> a]
                /\ WriteHit(p, a) \/ WriteUpgrade(p, a) \/ WriteMiss(p, a)
          /\ Sends(inbox, {p}, a)
    /\ trace' = [trace EXCEPT ![p] = Tail(@)]
    /\ hit_countdown' = [hit_countdown EXCEPT ![p] = IF hit_pending'[p] THEN HIT_LATENCY ELSE 0]
    /\ NextCache(p)
    /\ UNCHANGED <<cache_done, count, ndone>>

-----------------------------------------------------------------------------
\* MigratoryManager::event.  Requests it is not ready to acknowledge stay in the
\* inbox, in their order.

ManagerAt(p) == turn = <<"manager", p>>

Answerable(p) ==
    {i \in 1 .. Len(inbox[p]) :
        inbox[p][i].type \in {"busRd", "busRdX"} => ~Deferred(p, inbox[p][i])}

ManagerReceives(p) ==
    /\ ManagerAt(p) /\ Answerable(p) # {}
    /\ LET i == CHOOSE i \in Answerable(p) : \A j \in Answerable(p) : i <= j
           m == inbox[p][i]
       IN  /\ Recv(p, m)
           /\ Sends([inbox EXCEPT ![p] = S!RemoveAt(@, i)],
                    IF m.type \in {"busRd", "busRdX"} THEN {p} ELSE {}, m.addr)
    /\ UNCHANGED <<trace, hit_countdown, cache_done, count, turn, ndone>>

\* allocate() throws out the first line of the list.
OldestGoes(p) ==
    \A b \in Addr :
        line[p][b].valid /\ ~line'[p][b].valid
            => b = Head(SelectSeq(recency[p], LAMBDA c : c \in set_of(b)))

ManagerEnds(p) ==
    /\ ManagerAt(p) /\ Answerable(p) = {}
    /\ IF running = NoProc /\ ~MustReissue(p) /\ ~Completed(p)
       THEN UNCHANGED <<vars, machineVars>>
       ELSE /\ HandlePendingRequest(p)
            /\ OldestGoes(p)
            /\ IF MustReissue(p) \/ Completed(p)
               THEN Sends(inbox, IF Completed(p) THEN {p} ELSE {}, pending_request[p].addr)
               ELSE UNCHANGED <<recency, inbox, interconnects, current, aborted, bus>>
            /\ UNCHANGED <<trace, hit_countdown, cache_done, count>>
    /\ turn' = IF p + 1 \in Proc THEN <<"manager", p + 1>> ELSE <<"interconnect", 0>>
    /\ UNCHANGED ndone

-----------------------------------------------------------------------------
\* Bus::event.  After a request it waits for the acknowledgements of all the others.

awaited_from_everybody(ms) ==
    IF \E m \in ms : m.type \in {"busRd", "busRdX"} THEN nprocs ELSE bus.acks

\* The acknowledgements it waits for once it has delivered ms.
awaited(ms) ==
    IF \E m \in ms : m.type \in {"busRd", "busRdX"} THEN nprocs - 1 ELSE bus.acks

BusEvent ==
    /\ turn = <<"interconnect", 0>> /\ OnBus
    /\ \/ /\ bus.delay = 0 /\ bus.acks = 0 /\ bus.incomming # <<>>
          /\ bus' = [bus EXCEPT !.delay = BUS_DLY]
          /\ UNCHANGED inbox
       \/ /\ bus.delay = 0 /\ (bus.acks > 0 \/ bus.incomming = <<>>)
          /\ UNCHANGED <<bus, inbox>>
       \/ /\ bus.delay > 1
          /\ bus' = [bus EXCEPT !.delay = @ - 1]
          /\ UNCHANGED inbox
       \/ /\ bus.delay = 1
          /\ inbox' = handed(inbox, Head(bus.incomming))
          /\ bus' = [incomming |-> Tail(bus.incomming), delay |-> 0,
                     acks |-> awaited(Head(bus.incomming))]
    /\ turn' = <<"memory", 0>>
    /\ UNCHANGED <<vars, trace, hit_countdown, cache_done, recency, interconnects, current,
                   aborted, count, ndone>>

\* event() of the other interconnects, one link at a time.
NetworkBegins ==
    /\ turn = <<"interconnect", 0>> /\ ~OnBus /\ current = N!NoLink
    /\ IF N!Busy(interconnects, N!Link) = N!NoLink
       THEN turn' = <<"memory", 0>> /\ UNCHANGED <<inbox, interconnects, current, aborted>>
       ELSE N!EventBegins /\ UNCHANGED turn
    /\ UNCHANGED <<vars, trace, hit_countdown, cache_done, recency, bus, count, ndone>>

\* On the mesh and the torus a message that arrives is checked against the directory.
NetworkEvent ==
    /\ turn = <<"interconnect", 0>> /\ current # N!NoLink
    /\ N!LinkEvent(current)
    /\ UNCHANGED vars
    /\ LET l == interconnects[current]
       IN  Looked(IF l.delay > 0 /\ N!Expires(current) /\ Interconnect \in {"mesh", "torus"}
                  THEN InDirectoryCheck ELSE {},
                  IF l.incomming = <<>> THEN NoAddr ELSE Head(l.incomming).addr)
    /\ turn' = IF current' = N!NoLink THEN <<"memory", 0>> ELSE turn
    /\ UNCHANGED <<trace, hit_countdown, cache_done, bus, count, ndone>>

-----------------------------------------------------------------------------
\* MigMemory::event: the blocks it has read are sent, by address, all countdowns
\* tick, and then the inbox is emptied.

Due == {a \in Addr : count[a] = 1}

MemoryAnswers ==
    /\ turn = <<"memory", 0>> /\ Due # {}
    /\ \E a \in Due :
          /\ \A b \in Due : a <= b
          /\ MemAnswer(a)
          /\ Sends(inbox, {}, a)
          /\ count' = [count EXCEPT ![a] = 0]
    /\ UNCHANGED <<trace, hit_countdown, cache_done, turn, ndone>>

MemoryTicks ==
    /\ turn = <<"memory", 0>> /\ Due = {}
    /\ count' = [a \in Addr |-> minus_one(count[a])]
    /\ turn' = <<"inbox", 0>>
    /\ UNCHANGED <<vars, trace, hit_countdown, cache_done, recency, inbox, interconnects,
                   current, aborted, bus, ndone>>

MemoryReceives ==
    /\ turn = <<"inbox", 0>> /\ inbox[MEM] # <<>>
    /\ LET m == Head(inbox[MEM])
       IN  /\ MemReceive(m)
           /\ count' = [count EXCEPT ![m.addr] =
                 IF memory'[m.addr] = NoProc THEN 0
                 ELSE IF m.type \in {"busRd", "busRdX"} THEN latency ELSE @]
    /\ inbox' = [inbox EXCEPT ![MEM] = Tail(@)]
    /\ UNCHANGED <<trace, hit_countdown, cache_done, recency, interconnects, current,
                   aborted, bus, turn, ndone>>

\* Simulator::event ends; Simulator::run calls it again unless every cache was done.
CycleEnds ==
    /\ turn = <<"inbox", 0>> /\ inbox[MEM] = <<>>
    /\ turn' = IF ndone >= nprocs THEN <<"over", 0>> ELSE <<"cache", 0>>
    /\ ndone' = 0
    /\ UNCHANGED <<vars, machineVars>>

-----------------------------------------------------------------------------
SimInit ==
    /\ Init
    /\ trace \in Traces
    /\ hit_countdown = [p \in Proc |-> 0]
    /\ cache_done = [p \in Proc |-> FALSE]
    /\ recency = [p \in Proc |-> <<>>]
    /\ inbox = [r \in Proc \cup {MEM} |-> <<>>]
    /\ interconnects = [l \in N!Link |-> N!EmptyLink]
    /\ current = N!NoLink
    /\ aborted = FALSE
    /\ bus = [incomming |-> <<>>, delay |-> 0, acks |-> 0]
    /\ count = [a \in Addr |-> 0]
    /\ turn = <<"cache", 0>>
    /\ ndone = 0

SimNext ==
    /\ ~aborted
    /\ \/ \E p \in Proc : \/ CacheWaits(p) \/ CacheIdles(p) \/ CacheIssues(p)
                          \/ ManagerReceives(p) \/ ManagerEnds(p)
       \/ BusEvent \/ NetworkBegins \/ NetworkEvent
       \/ MemoryAnswers \/ MemoryTicks \/ MemoryReceives
       \/ CycleEnds

\* The simulator is one loop, which goes on as long as it is not done.
SimSpec == SimInit /\ [][SimNext]_simVars /\ WF_simVars(SimNext)

-----------------------------------------------------------------------------
(***************************************************************************)
(* Properties                                                              *)
(***************************************************************************)

\* The bus hands over nothing while it waits: the acknowledgements it still counts
\* are those of the processors that have the one request it delivered last in
\* their inboxes, so that the counter, which takes any acknowledgement for one of
\* these, neither ends too early nor waits for ever.
Unanswered ==
    {m \in UNION {{inbox[p][i] : i \in 1 .. Len(inbox[p])} : p \in Proc} :
        m.type \in {"busRd", "busRdX"}}

BusCountsAcks ==
    OnBus => /\ bus.acks = Cardinality(Unanswered)
             /\ \A m, n \in Unanswered : m.sender = n.sender /\ m.addr = n.addr

\* The simulation comes to its end: every miss is completed, whoever else asks for
\* the block, and every cache learns that the trace is over.
SimulationEnds == <>(turn = <<"over", 0>>)

=============================================================================
