# A verification project for the cache-coherence simulator

`src/simulator` is a trace-driven simulator of a directory-based cache-coherence
protocol (MESI with a migratory extension) on six interconnects. It replays a task
graph: one cache per context issues the memory operations of its tasks. The graph
comes from Contech (`src/contech`, vendored): an instrumented program records
events in buffers, a background thread writes them to a trace, and the middle
layer turns the trace into tasks.

This directory holds TLA+ models of these parts, the TLC runs that check them and
the proofs TLAPS checks. Every definition is translated from the source;
`PROJECT.json` names the lines ("map"), lists the components, and lists what is
hard to test in this code ("hazards"), each at its line with the properties that
would catch it going wrong.

## 1. Inventory

### Components

| component | state | operations | interacts with |
|---|---|---|---|
| `Simulator` (`simulator.cpp`) | done, the parts below | `event`: one cycle | every cycle runs, in this order, each cache's `event`, each manager's `event`, the interconnect's `event`, the memory's `event`, in one thread |
| `TaskManager` (`task_manager.cpp`) | queue of 32 tasks, the task each context is in, retired tasks | `get_next_memop`, `goto_roi`, `refill_queue`, `preds_met` | called by the caches |
| `Cache` (`cache.cpp`) | sets of lines (tag, state, `most_recent`, `valid`) in LRU order, pending hit and its address, `coherence_request_pending` | `event`, `read`, `write`, `complete_read`, `complete_write`, `invalidate`, `allocate` | asks the task manager for operations; calls `read`/`write` of its manager on a miss |
| `MigratoryManager` (`migratory_manager.cpp`) | one pending request (type, address, `needed_acks`, tag, `got_data`, `shared`, `migratory`), `pending_reissue`, inbox and put-back queue | `read`, `write`, `handle_incomming`, `handle_pending_request` | changes the lines of its cache, the request table, the directory; sends through the interconnect |
| `RequestTable` (`request_table.cpp`) | 8 entries (address, requester, type) | `exists`, `enter`, `del` | shared by all managers |
| `Crossbar`, `Ring`, `Mesh`, `Torus`, `Omega` | a directory word per block; per link a queue, a queue of directions and a countdown | `broadcast`, `send`, `send_ack`, `event`, `next`, `broadcast_needed`, `check_directory` | deliver to the inboxes of managers and memory |
| `Bus` (`bus.cpp`) | a queue, a delay, the number of acknowledgements awaited | `broadcast`, `send_ack`, `event` | the same, without a directory |
| `MigMemory` (`mig_memory.cpp`) | per block one read under way (countdown, requester), inbox | `event` | answers with the block through the interconnect |
| `Countdown` | remaining, done | `reset`, `tick` | hits, links, the bus, the memory |
| consistency checkers | none | `check_states`, `check_requests` | read caches and table, report on stderr |
| `MESIManager`, `MESIMemory` | as above | as above | compiled, never instantiated |
| tracing runtime (`ct_runtime.c`, `ct_main.c`) | each thread's buffer, the list of queued and the pool of free buffers, thread counts, a memory limit, global numbers for syncs and barriers | `__ctAllocateLocalBuffer`, `__ctQueueBuffer`, `__ctThreadCreateActual`, `__ctStoreSync`, `__ctStoreBarrier`, ..., the background writer | the program's threads and the writer share the lists under two mutexes |
| event library (`ct_event.cpp`) | the place in the trace, per context a list of skipped buffers | `initBufList`, `createContechEvent` | reads the trace, leaves out blocked contexts |
| middle layer (`src/contech/middle`) | `EventList`: queues per context, two ticket counters; per context the tasks it holds; `ownerList`, `joinMap`, `creatorMap`, barriers | `getNextContechEvent`, the handlers of the main loop, `backgroundQueueTask`, the index | a second thread writes released tasks |
| task library (`taskLib`) | a task: type, predecessors, successors, actions | readers, writers | read by the task manager, written by the middle layer |
| compiler passes, backends, options, statistics | | | see section 5 |

### How a miss goes

The cache calls `read` or `write` of its manager and waits. The manager computes
from the directory how many acknowledgements it needs and enters the block into
the request table; if the block is already there, or the table is full, it sets
`pending_reissue` and tries again later. Otherwise it sends the request to the
memory and to the processors in the directory (to all of them when the directory
has run out of pointers, or on the bus). Each of them downgrades or drops its
line, acknowledges with the flags `SHARED` or `MIGRATORY`, and sends the block if
its line is the `most_recent` one. The memory reads the block in any case. When
all acknowledgements and a block have arrived the manager picks the new state,
updates the directory, installs the line (a line of the set may be thrown out, of
which nobody is told), frees the table's entry and lets the cache go on.

### How an event goes

A thread stores events in its buffer and draws a number for a sync or a barrier.
A full buffer is queued, or copied to size, and another one allocated; when the
pool's limit is reached threads wait on a condition variable until the writer has
written everything. The writer ends when as many threads have exited as have been
numbered. The reader takes the buffers in the order of the file, but an event whose
number is not due blocks its context: its events are queued, its later buffers
skipped and sought again. `readyEvents` lets a created thread start. The main loop
appends each event to the active task of its context, makes tasks and edges for
creates, joins, syncs and barriers, and releases a task when nothing can change it.

### What is hard

In the simulator there are no threads; what interleaves is messages. A request,
its acknowledgements, the block from another cache and a second one from the
memory travel independently; other requests are made, put back and retried
meanwhile; copies disappear silently; the directory is changed when a request
completes and read when one is made. Routing is a decision at each hop that depends
on the queues of the moment. In the runtime threads do interleave, with reads
outside the locks, a timeout and a limit. In the middle layer exit and join, create
and start, arrivals and departures of a barrier come in many orders.

What makes each component correct:

- caches and managers together: single writer, one supplier, a migratory hand-over
  really moves the block, no `assert(false)` is reached; seen from outside, each
  block is handed over in one step;
- the manager's counting: `needed_acks` is exact, hence never wraps and reaches 0;
- request table: one entry per block, freed by the request that made it;
- directory: it covers every copy;
- interconnects: a message reaches its receiver, once, and nearer with each hop;
- bus: one request at a time, released when all have acknowledged;
- the whole simulator: every miss is completed and the simulation ends;
- task manager: predecessors first, program order, nothing lost; the replay ends;
- runtime: buffers once each and in order, none leaked, the trace complete at its end;
- middle layer: events in program and ticket order, all delivered; a task does not
  change once released; forks, joins, barriers and syncs are in the graph; the index
  is complete.

## 2. The model

| module | models | notes |
|---|---|---|
| `MigConst` | the states, flags and transition table of the protocol | pure operators; `do_mig` is `--mig` |
| `MigratoryProtocol` | caches, managers, request table, directory, memory, without time | one action per handler |
| `MigratoryProtocolInv` | its inductive invariant | |
| `CoherentBlocks` | what the protocol promises: a right per processor and block, handed over in one step | abstract specification |
| `CoherentRefinement` | the refinement mapping: a line is a right, a pending request is a wish | `INSTANCE ... WITH` |
| `Routing` | `next` of each interconnect | pure operators |
| `Network` | links, queues, directions, delays, `send` and `event` of five interconnects | one link's turn per step |
| `Simulator` | the cycle: caches, managers, bus or network, memory; countdowns, LRU | extends `MigratoryProtocol`, instantiates `Network` |
| `TaskManager` | the replay of a task graph | every turn of the loops a step |
| `EventBuffers` | the runtime's threads and the background writer | one critical section per step |
| `EventQueue` | what the runtime stores, `EventLib`'s choice of buffers, `EventList` | the program is external |
| `MiddleLayer` | the handlers of the main loop, release and index of tasks | extends `EventQueue` |
| `MC...` | instances for TLC | |
| `...Proofs` | theorems | section 4 |

### MigratoryProtocol

| variable | code |
|---|---|
| `line[p][a]` | the `Line` of block `a` in cache `p`, if `find_line` finds one |
| `hit_pending`, `hit_addr`, `coherence_request_pending` | the fields of `Cache` |
| `pending_request`, `pending_reissue` | the fields of `MigratoryManager` |
| `table` | `RequestTable::table`; a free entry is one of type `none` |
| `directory[a]` | the bits of the interconnect's `directory[a]` |
| `net` | a bag: everything in links, inboxes and `incomming_temp` |
| `memory[a]` | the requester of `MigMemory::table[a]` |
| `running` | the manager whose `event()` is between `handle_incomming` and the end of `handle_pending_request` |
| `memops` | what is left of the trace |

| action | code |
|---|---|
| `Idle`, `ReadHit`, `ReadMiss`, `WriteHit`, `WriteUpgrade`, `WriteMiss` | `Cache::event` with its call of `issue_new`, `read` or `write`, down to the sending of the request (`Issue`) |
| `RecvBusRd`, `RecvBusRdX`, `RecvAck`, `RecvData` | one turn of the loop of `handle_incomming` |
| `HandlePendingRequest` (`Reissue`, `CompleteRead`, `CompleteWrite`, `NothingToDo`) | `handle_pending_request` |
| `MemReceive`, `MemAnswer` | the two loops of `MigMemory::event` |

- Delays are nondeterminism: a message may be delivered at any later time and in
  any order, a hit or a memory access may last any time. A component's `event` is
  still atomic where the code's is (`running`). Every execution of the simulator is a
  behaviour of this model, which `SimulatorProofs` proves of the cycle-accurate one.
- Which valid line a full set gives up is any (`victims`).
- A request whose type is `none` and the state of a block that is not in the cache
  are normalised: the code overwrites them before it reads them.
- Word-sized flags are sets of bits, so that `found & line->most_recent & TRANSMIT`
  is computed as the code does it: bits 0 and 0 and 2 have nothing in common, so
  the flag is never set. The memory is therefore never told that a cache supplies a
  block, and answers up to 100 cycles later a request that is over; coherence
  survives that, since a request also waits for every holder's acknowledgement.
  When the block is not found the code reads `most_recent` through a pointer nobody
  set; the model takes the outcome the mask leaves.
- `broadcast_needed` of the mesh tests `limited_pointers` the other way round from
  the others (`mesh.cpp:227`): with `--pointers 0`, the help's "full table", it
  broadcasts what is shared. It is modelled as it is; the counting is right either way.
- `needed_acks` is decremented modulo `UINT_MAX + 1`.

### Routing and Network

`interconnects[l]` is a `subinterconnect`: queue, directions (`flip`), countdown; a
bidirectional link is filed under the smaller node. `Send` is `send()` from any
receiver to any other between two events, `EventBegins`, `Start`, `Tick` and `Arrive`
are the turns of the loop of `event()`, `current` is the link it is at, `aborted` an
assert that failed. Links that are done and empty are passed over at once (`Inert`).
The places of the omega network are switches, `switch` is the arithmetic of its layers.
The parameters' side conditions are the definition `ParametersOK`, which the proofs
take as a hypothesis.

### Simulator

`turn` says whose turn it is in the cycle. A step of a cache, a manager or the memory
is the step of `MigratoryProtocol` with that name, in which the receivers' `inbox`,
the links and the `bus` decide what arrives, `hit_countdown`, `count` and `delay` when,
and `recency` which line goes. `recency` includes a side effect: `check_directory`,
which is there to assert, calls the `find_line` that moves a line to the end of the
list (`crossbar.cpp:164`), though with `--numa` not in the cache of the last processor,
which its loop leaves out (`InDirectoryCheck`). `handle_incomming`'s put-back queue is the rest of the inbox
in its order. The task manager is replaced by one sequence of operations per processor.

The model's timing was compared with the compiled simulator, its task manager replaced
by such sequences: in 150 random configurations (interconnect, 2 to 5 processors,
`--mig`, `--numa`, `--unidirectional`, pointers, 1 to 3 lines, random traces) the numbers
of cycles agree. Forty of them have `--numa` and an interconnect with `check_directory`, to
tell which caches it looks into.

### TaskManager

Variables have the names of the code's; `handed` counts the actions of a task that
have been handed out. `Call` enters `get_next_memop`; `NextAction`, `RetireTask`,
`NothingLeft`, `Refill`, `TakeTop` and `NotReady` are the ways through
`get_next_action`. A graph is a file's list of tasks: basic blocks by start time,
each after its predecessors (what the index of the middle layer gives).

### EventBuffers

A thread's `pc` is where it is in `__ctAllocateLocalBuffer` and its life; `local` its
buffer: none, the init buffer, a real one. `AllocFree`, `AllocNew`, `AllocWait` and
`AllocWoken` are the paths of the allocation, `QueueFull` and `QueueCopy` those of
`__ctQueueBuffer`, `LastBuffer`, `CountExit` and `CleanupThread` the end of a thread.
The writer's `Check` to `ExitCheck` are its loops with every change of lock as a step.
Reads without a lock (the head of the queue, the thread counts) are steps of their own.

### EventQueue and MiddleLayer

`pc` is "program" until the traced program has ended, then alternates between the
`scan` of the queues and the `read` of the file in `getNextContechEvent` and the `main`
loop. `list` holds the fields of `EventList`, `pos`, `skipList` and `skipSet` those of
`EventLib`, `file` the trace. A buffer is known by its place in the file, so that the
list of a context's buffers that `skipList` keeps is a set, its front the least one; an
event by its buffer and its place there (`EventAt`). `Scan...` are the branches of the loop over the queues,
`Read...` those of the switch. `graph` holds the tasks, those each context still
`held`, those `queued` for the background thread, and the maps of `middle.cpp`; the
handlers are operators from graph to graph: `Block`, `Create`, `Start`, `Sync`, `Exit`,
`Join`, `Enter`, `Leave`. Blocks that follow each other are one event; `long` says that
the task gets too long in them (`MAX_BLOCK_THRESHOLD` blocks, or no memory for one more),
so that `Split` releases it and makes another one. `Check` records a failed assert of the
main loop; one of `EventLib` or `EventList` sets `pc` to "aborted". The background thread is
not a process: it may write a task at any time after its release, which is what
`ReleasedIsFinal` protects; the index it makes at the end is `Indexed`.

## 3. What is checked

| run | instance | shows |
|---|---|---|
| `three_caches` | 3 processors, 2 blocks in a cache of 1 line, table of 2, ring, 1 directory pointer, `--mig`, 4 operations | `SingleWriter`, `OneSupplier`, `MigrationMovesTheBlock`, `AcksExact`, `TableOwnership`, `DirectoryCovers`, `AssertsHold`, and `ImplementsCoherentBlocks`, the refinement |
| `networks` | crossbar (2 processors), bidirectional ring (3), mesh (4, last row not full), torus (8, full square), omega (3); 1 or 2 messages | `FrontExists`, `ExactlyOnce`, `EveryHopApproaches`, `RoutingAsserts`, `CrossbarInOrder`, `MessagesArrive` |
| `cycles` | whole simulations of 2 or 3 processors on each of the six interconnects, all traces of two operations | `BusCountsAcks`, `SimulationEnds` |
| `replay` | all graphs of 4 tasks in 2 contexts, queue of 2, no limit or one of 2 tasks | `PredecessorsFirst`, `ProgramOrder`, `NothingLost`, `LimitKept`, `ReplayEnds` |
| `buffers` | 2 threads, up to 2 buffers each and the last one, limits of 2 and 7 buffers, failed `pthread_create`, segmentation faults | `BuffersInOrder`, `WaiterFindsBuffer`, `BuffersConserved`, `EndsComplete`, `TraceEnds` |
| `middle` | the traces of nine kinds of programs of up to 4 threads | `ProgramOrder`, `GlobalOrder`, `ForkJoin`, `BarrierSeparates`, `SyncsOrdered`, `IndexComplete`, `AssertsHold`, `ReleasedIsFinal`, `MiddleEnds` |
| `stale_hit` | 2 processors, block 64 | `HitKeepsLine` is violated |
| `torus_four` | a torus of 4 processors | `EveryMessageArrives` is violated |
| `region_waits` | graphs of 4 tasks with a region of interest | `ReplayEnds` is violated |
| `buffers_limit` | 2 threads, limit of 2 buffers | `WriterSurvivesLimit` is violated |
| `events_lost` | 3 threads with up to 3 syncs | `AllDelivered` is violated |
| `ring_waits` | 10 processors on the ring, the code's delays | `SimulationEnds` is violated |

Every passing run but `cycles` also checks its module's type invariant.

`MiddleEnds` says that the reader comes to the end of the trace and not to a failed assert
of `EventLib` or `EventList` (`pc = "aborted"`: a returned event of a blocked context, a NULL
that a nested call uses, all remaining buffers blocked). It does not say that everything was
delivered; `events_lost` shows that it need not be. `AssertsHold` of `MiddleLayer` is about the
other asserts, those of the main loop, `Context` and the barriers. `CrossbarInOrder` states a
guarantee of the crossbar that no handler needs, as the other interconnects do not give it.

### Bounds

- **Protocol.** `MaxMemops` bounds the trace, hence everything else. Four operations
  are a migration (write, read, write: the block is found migratory) and its
  hand-over (read); the transitions out of `MIGRATORY_CLEAN` come with the third
  reader of `cycles`, and the proofs cover all. Two blocks and one line make every
  second operation evict; a table of one entry is full as soon as a request is under
  way; three processors give two sharers and a requester, and exceed one directory
  pointer. `UINT_MAX = 7` is larger than any count, so that a wrap would show.
- **Networks.** Two messages are the least that compete for a link or overtake each
  other; the routers look at the queues, hence every pair of receivers is sent in any
  order and at any time. Two cycles per link let a message be under way while another
  arrives. Node counts are the smallest at which each router has all its cases: a last
  row that is not full, a tie on the ring, a torus that wraps.
- **Whole simulations.** Two operations of two processors and a read of a third on two
  blocks and one line: misses that meet, evictions, write-backs that find nothing,
  late answers of the memory. Hits last longer than a hop, so that requests are put
  back.
- **Replay.** Four tasks give every diamond and every crossing of two contexts; the
  queue of two is full while a task waits.
- **Buffers.** Two threads that queue two buffers each meet the writer in every state;
  a limit of 2 is reached with one thread waiting, one of 7 never.
- **Middle layer.** No kind of program has more events than the thing it is about
  needs (three syncs are what `events_lost` takes; two rounds of a barrier, what reuse
  takes; a task is split at most twice, before and after other events); each kind is checked in every interleaving of its threads.

Processors are symmetric in the runs of the protocol (`ProcSymmetry`); no liveness
property is checked under symmetry. Deadlock checking is off where the system really
stops: the trace is used up, the messages have arrived, the replay, the writer or the
middle layer has ended.

### Fairness

| where | assumed | why |
|---|---|---|
| `Network` | `WF(Step)` | the simulator calls `event()` of the interconnect in every cycle |
| `Simulator` | `WF(SimNext)` | one thread, one loop |
| `TaskManager` | `WF(get_next_memop(c))`, `SF(Call(c))` | a call that has begun goes on; the loop over the caches asks for every idle cache again and again, while calls of other caches disable this one's in between |
| `EventBuffers` | `WF` of the writer and of each thread | the operating system runs every thread that can run; the condition variable's waiters are woken by a broadcast |
| `MiddleLayer` | `WF(Scan \/ Read \/ Consume)` | one thread, one loop; the writing thread is not waited for |

### Violations

1. `stale_hit`. `Cache::get_hit_addr` returns `bool` (`cache.hpp:128`), so requests are
   put back (`migratory_manager.cpp:319`) only for the block at address 0; any other
   block is taken away while a hit on it is counted down.
2. `torus_four`. `Torus::next` wraps the rows with the length of a row
   (`torus.cpp:204`); with four processors a message to the memory goes to and fro for
   ever. The compiled simulator hangs on such a torus.
3. `region_waits`. With `--roi` the first task of the region is read and dropped
   (`task_manager.cpp:38`); what follows it waits for ever.
4. `buffers_limit`. When the limit is reached while one full buffer is queued, the
   writer stores through `memLimitQueueTail`, which is still null (`ct_main.c:429`).
5. `events_lost`. `readyEvents` fills a queue without telling the fast check of
   `getNextContechEvent` (`eventQ.cpp:415`, `eventQ.cpp:180`): the trace ends while an
   event that could be delivered is queued.
6. `ring_waits`. The memory keeps one read per block and the request that arrives last
   gets it (`mig_memory.cpp:63`). On the ring an old request that a cache has answered
   long ago can arrive after the current one, which is then never answered. The run
   uses the code's delays (10 per hop, 11 per hit, 100 per read) but one line per set:
   with the code's eight the holder must miss eight times while the old request waits
   in a congested link. The compiled simulator, unchanged but for its traces, hung in
   the same way with 14 processors.

### Mutants

Every property of a passing run has a mutant: an operator `X_<mistake>` before `X`,
with which TLC finds the property violated.

### What else the models show

Changes of a constant, or properties that were tried, which are not runs of their own:

- the memory answers requests that are over, because `TRANSMIT` is never sent
  (`migratory_manager.cpp:110`, `:230`); the block may be taken for the answer to a later
  request of the same processor. Coherence survives, message counts do not;
- the mesh broadcasts exactly when the others do not (`mesh.cpp:227`);
- a torus of two processors asserts (`torus.cpp:243`), one of 4 or 12 circles;
- `Silence = TRUE` (the program queues nothing for 30 seconds): the return value of the
  wait is not reset (`ct_main.c:298`), the writer spins with the lock held, no thread can
  queue again and `TraceEnds` fails. It is checked with `FALSE`;
- at a limit the writer may not survive (4. above), and a copy cut to length that is the last
  in the queue is freed without the test for the end of the limit (`ct_main.c:407`): the
  waiting threads go on waiting. `TraceEnds` is therefore stated for limits out of reach.
  A limit smaller than one buffer (`ct_main.c:92`) makes the first allocation wait for
  ever and is not in `Limits`;
- `ReturnsAfterJoin = TRUE` (a thread returns right after it has joined another, with no
  event in between): its exit can come while its active task is a join that waits for a
  child, and an assert of the middle layer fails (`Context.cpp:51`). Where the run excludes
  such programs it holds;
- `ThreadJoin` open to every thread (pthreads let any thread join another, `c \in children[p]`
  lets the creator): `ForkJoin` fails, since an exit looks for the join that waits for it
  with the creator only (`middle.cpp:498`), and a join of another thread that comes first is
  never linked. `AssertsHold`, `BarrierSeparates` and `IndexComplete` hold for such programs;
- the number 0 means "not drawn yet" to `__ctStoreSync`
  (`ct_runtime.c:788`); the model's syncs draw their number when they are stored;
- tasks that are not basic blocks are retired when they are read
  (`task_manager.cpp:75`), so `PredecessorsFirst` says "basic-block predecessors".

## 4. What is proved

| theorem | states |
|---|---|
| `CoherenceProofs!TypeCorrect` | `Spec => []TypeOK` |
| `CoherenceProofs!InvariantCorrect` | `Spec => []IInv` |
| `SingleWriterCorrect`, `OneSupplierCorrect`, `DirectoryCorrect`, `AcksCorrect`, `TableCorrect`, `MigrationCorrect`, `AssertsCorrect` | the safety properties of `three_caches` |
| `CoherentBlocksProofs!CoherentBlocksImplemented` | `Spec => ImplementsCoherentBlocks` |
| `SimulatorProofs!SimulatorImplementsProtocol` | `SimSpec => Spec` |
| `SimulatorProofs!SimulatorCoherent` | `SimSpec => [](SingleWriter /\ AcksExact /\ AssertsHold)` |
| `SimulatorProofs!BusAcksCorrect` | `SimSpec => []BusCountsAcks` |
| `NetworkProofs!NetworkTypes`, `FrontCorrect` | `TypeOK`, `FrontExists`, on all but the omega network |
| `NetworkProofs!ApproachCorrect`, `AssertsCorrect` | `EveryHopApproaches`, `RoutingAsserts` on the ring and the mesh |
| `NetworkProofs!ExactlyOnceCorrect`, `UnlessAborted` | `ExactlyOnce` on the crossbar, the ring and the mesh; on the torus unless its router fails |
| `NetworkProofs!CrossbarOrder` | `PairsInOrder` on the crossbar |
| `TaskManagerProofs!TaskManagerTypes`, `TaskManagerPredecessors`, `TaskManagerProgramOrder`, `TaskManagerNothingLost`, `TaskManagerLimitKept` | `TypeOK`, `PredecessorsFirst`, `ProgramOrder`, `NothingLost`, `LimitKept` |
| `EventBuffersProofs!BuffersTypeOK`, `TraceInOrder`, `PoolConserved`, `WaitersServed`, `TraceComplete` | `TypeOK`, `BuffersInOrder`, `BuffersConserved`, `WaiterFindsBuffer`, `EndsComplete` |
| `MiddleProofs!MiddleProgramOrder`, `MiddleGlobalOrder` | `ProgramOrder`, `GlobalOrder` of the events the middle layer takes |
| `MiddleProofs!QueueInvariant` | the inductive invariant these follow from |
| `GraphProofs!MiddleTypes`, `MiddleAsserts`, `MiddleForkJoin`, `MiddleBarriers`, `MiddleReleased` | `MiddleTypeOK`, `AssertsHold`, `ForkJoin`, `BarrierSeparates`, `ReleasedIsFinal` of the task graph, if `ReturnsAfterJoin = FALSE` |
| `GraphProofs!GraphInvariant` | the inductive invariant these follow from |

They hold for all values of the constants: any number of processors, blocks, lines,
table entries (0 included: nothing is ever sent), directory pointers, operations;
any task graph, queue and limit; any number of threads, buffers and traced programs; any
number of nodes, delay and traffic. The theorems about `Network` state its own definitions,
which `MCNetworks` joins for its five instances, and `BusCountsAcks` is checked for the
instances of `MCSimulator`.

### Assumptions

- `ProtocolAssumption`, `DoMigAssumption`: finitely many processors, different from the
  memory; block addresses are numbers; the unsigned counter can count the processors.
  The directory is a set of processors: what the code makes of it in a 64-bit word
  built with `0x1<<proc` is outside (from processor 31 on it goes wrong,
  `crossbar.hpp:95`).
- `TaskManagerAssumption`: the graphs are lists of tasks whose predecessors come
  before them; `BuffersAssumption`: the threads are finitely many.
- `ParametersOK`: delays are positive and there is a processor. It is a definition and
  not an ASSUME because the network is instantiated with different values in one run;
  the theorems have it as a hypothesis, and `TypeOK` of `networks` evaluates it for
  every instance.

- `ReturnsAfterJoin = FALSE`, the hypothesis of the theorems in `GraphProofs`: no thread but
  the first one returns right after it has joined another. For other programs
  `AssertsHold` is false ("What else the models show"), so it cannot be dropped; the
  theorems about the order of the events do not have it.
- What a traced program may do is an assumption of the model, hence of the run `middle` and
  of the theorems in `MiddleProofs` and `GraphProofs`. A thread is joined by nobody but the
  thread that created it (`ThreadJoin`), although pthreads let any thread do it and the
  middle layer treats another one differently (`ForkJoin` is false then, see "What else the
  models show"). Calls of `pthread_create` and of syncs succeed. A barrier has a fixed party,
  and a round ends when all of it have come (`StoreBarrierLeave`).

TLC evaluates the assumptions in every run of their modules.

### The protocol

Type correctness is not inductive by itself: what is issued again must be a request,
which `ReissueHasRequest` adds. The safety properties are not inductive either, because
while a request is under way they depend on what is in flight. `IInv` adds:

- `WriteReachesHolders`, `ReadReachesHolders`, `RequestReachesSupplier`: whoever still
  holds (may write, would supply) the requested block has the request still to come, or,
  for a read, has given up the right to write and told the requester that it shares the
  block, by a flag that has arrived or an acknowledgement on its way. When the request
  is sent this is `DirectoryCovers`; when it completes, nothing is on its way any more,
  so the holders are gone (write) or have become sharers (read).
- `TrafficShape`: requests and acknowledgements travel between different processors, a
  request in flight is the one its sender has pending, and no acknowledgement carries
  `TRANSMIT`.
- `LinesNormal`: a block that is not in the cache is not `most_recent`.

`AcksExact` says that each processor still to acknowledge accounts for one message of
the request and one unit of `needed_acks`; so `needed_acks = 0` means that nothing of
the request is in flight (`QuietAfter`), and a processor without a request has nothing
in flight (`QuietBefore`). `TableOwnership` makes two requests in flight be for
different blocks (`ActiveUnique`), so that a completed request disturbs no other.
`MigrationMovesTheBlock` follows from `SingleWriter` at the holder that answers
`MIGRATORY`: it had the block alone and drops it. `FrameStep` covers the steps that
change no right, no sent request and no traffic; `SentStep`, `AnswerStep`, `AckStep` and
`CompleteStep` the four that do.

### The refinements

`CoherentBlocks` knows only who wants which right and who has it, and hands a right over
in one step. A completed request of the protocol is that step: by `IInv` the holders
have dropped or lowered their lines before. A holder's answer to a request is the loss
of a right to a processor that wishes, an eviction the loss by a replacement; every
other step stutters. In the other direction, `SimulatorImplementsProtocol` needs no
invariant: each step of the cycle is a step of the protocol with more guards (what has
arrived, what has been counted down, which line is the oldest), or leaves the
protocol's variables alone.

### The other inductive invariants

- `NetworkProofs`, `LinkInv`: the queues of a link have the same length and a link that
  is counted down is not empty (`LinkOK`); on the ring and the mesh every message in a
  queue is on a link that takes it nearer to its receiver (`HopOK`; on the ring a link
  between neighbours), and no assert has failed. On the ring that is so when `next` puts it
  there, since it goes one node up or down towards the nearer side, and with a tie either
  is nearer. On the mesh `next` has two candidates, one column or one row nearer, and
  `CandidateExists` shows that one of them is a node although the last row may not be
  full: a step up always leads to a node, a row above another one is full, and within
  the last row the columns between two nodes exist.
- `NetworkProofs`, `OnceInv`: the numbers in the queues and in what has been handed over
  are those from 1 to `sent`, each at one place (`WhereOK`). A queue is then no longer than
  the bound on messages, by the pigeonhole principle, so that `Copies` sees all of it.
  `OrderInv` adds for the crossbar that a message is on the link from its sender to its
  receiver (`OnTheWay`), behind those sent before it (`InLine`), and that those handed over
  were sent before the ones of the same pair still queued (`HandedFirst`).
- `SimulatorProofs`, `BusInv`: inboxes hold messages of their receivers and at most one
  request each; an entry of the bus' queue is one block or one whole request; while
  something waits to be put on the bus nothing is unanswered. Then what a broadcast sets
  `acks_remaining` to is the number of requests it puts into inboxes, and each answer takes
  one away from both.
- `TaskManagerProofs`, `IInv`: a task that has been read is in the queue, retired, or the
  one its context is in (`KeptOK`); in the queue it is untouched (`QueueOK`), as it is
  before it is read (`UnreadOK`); in its context as many actions have been handed out as
  the index says (`ReadyOK`); retired it has been replayed (`RetiredOK`). Begun means that
  the predecessors are retired (`BegunOK`), and `done` that nothing is left (`EndOK`).
  `LimitKept` takes `CountInv`: until the replay is over `task_counter` is no less than the
  number of basic blocks retired, and these are below the limit.
- `EventBuffersProofs`, `IInv`: where each thread is decides what it holds (`LocalOK`),
  where the writer is decides what it has taken (`PopOK`), the counts are those of the
  lists in the critical sections (`CountsOK`, `LimitOK`); with these `BuffersInOrder`,
  `BuffersConserved` and `EndsComplete` are inductive.
- `MiddleProofs`, `QueueInv`: of what the program has stored, numbers are drawn once each
  (`Distinct`, `AllDrawn`) and a thread's first event is its start, after the create
  (`Starts`). While the program runs nothing has been read (`BeforeScan`). Then (`Scanned`)
  the buffers of a context that have not been read are its last ones (`Reading`); as many
  events of a context have been read as were returned (`got`) and are kept in its queue,
  and those kept are the next ones (`Complete`); a thread has a queue, a mark or a start
  that was returned only when its create was dealt with (`CreatedFirst`); the numbers
  of the events to come are not below the counters (`Ahead`). With these `ProgramOrder` and
  `GlobalOrder` are inductive.
- `GraphProofs`, `GraphInv`, on top of `QueueInv`. First, what a recorded trace is like
  (`Story`): an enter is followed by its leave, an exit ends a thread's last buffer, every
  join of a thread is by its creator, and when a thread leaves the barrier all have come to
  it as often as the thread itself (`Met`). These are facts of the program's steps, which
  the middle layer leaves alone. Second, what the graph is like between two events
  (`Built`): a context's tasks are numbered without a gap, and of those it holds the
  latest is the active one, but for a barrier it has made and not left (`Actives`); the
  four maps name tasks that are still held and of the right type (`Joins`, `Creators`,
  `Owners`, `Barriers`); a barrier whose last thread has left has one task of each thread
  on both sides (`Whole`). Third, how the graph and the trace go together (`Agree`): a
  context has tasks once its start was dealt with, `exited` are those whose exit was, a
  join waits if and only if the join was dealt with and the exit was not, and all threads
  of the party have entered the same number of rounds, the open one not counted. This is
  what makes a barrier whole: the next thread to leave finds all others in it.
  `Actives` is stated for the contexts that are `Alive`: the last task of a thread is
  released when both its exit and the join of its creator have come. An event is handled in
  small steps (`NextBlock`, `Merge`, `Follow`, `Release`, `Edge`); each has a lemma saying what
  it preserves of `GraphOK`. `BlockBecomes` to `LeaveBecomes`, one lemma for each type of
  event, put them together and say what the event changes of what `Agree` speaks of.
  `ReleasedIsFinal` follows because a handler only changes tasks that are held or open
  barriers, and a released task is neither.

### Only model-checked

- Liveness, which with fairness and ENABLED is beyond the prover: `MessagesArrive`,
  `SimulationEnds`, `ReplayEnds`, `TraceEnds`, `MiddleEnds`.
- The omega network: its switches are found with powers of 2, which are uninterpreted for
  the solver, so that not even the range of a switch's number can be shown.
- The routing of the torus: on some numbers of nodes it fails (`torus_four`, and below
  "What else the models show"), and 9 nodes, where it does not, are an instance.
- `SyncsOrdered` and `IndexComplete` of the task graph: what comes after a task, and what
  gets into the index, are computed by recursion over the graph.
- What a recursive definition computes. Where a proof needs a least element or an element
  of a finite set, it takes it from the well-foundedness of the finite subsets
  (`LeastIndex`), not by induction.

## 5. Not modelled, and why

- **The 64-bit directory word** (`crossbar.hpp:95`): `0x1<<proc` shifts an `int`, so from
  processor 31 on the word names processors that do not exist; the instances are
  smaller, and the theorems are about the set.
- **`MESIManager`, `MESIMemory`**: compiled, never instantiated.
- **Consistency checkers**: without state; what they report is `SingleWriter` and
  `TableOwnership`.
- **Latencies of 0**: `reset(0)` makes a countdown done at once (`countdown.cpp:24`), which
  the code's latencies, constants that are not 0, never do.
- **In the runtime**: the encoding of events, the region of interest, timestamps, MPI,
  OpenMP and Cilk contexts, memory events.
- **In the middle layer**: MPI events, the region of interest, timestamps, memory events
  within a block. Task files and their compression.
- **Compiler passes and pin tool**: they rewrite programs and keep no state when these
  run; what the calls they insert do is in `EventBuffers` and `EventQueue`.
- **Contech's back ends and scripts**: sequential analyses of a finished task graph, which
  the simulator does not use. They, the passes and the copies of both under `llvm` are
  most of the lines of `src`.
- **Statistics, options, progress bar**: input and output; the options are constants.
