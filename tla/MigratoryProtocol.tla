------------------------- MODULE MigratoryProtocol -------------------------
(***************************************************************************)
(* The coherence protocol of the simulator: every processor's Cache and    *)
(* MigratoryManager, the shared RequestTable, the directory kept by the    *)
(* interconnect, the messages in flight and MigMemory.                     *)
(*                                                                         *)
(* Time is abstracted.  The simulator runs every component's event() once  *)
(* a cycle and an interconnect delivers a message after a number of cycles *)
(* that depends on its topology and its load; here a message may be        *)
(* delivered at any later time and in any order, a hit and a memory access *)
(* may last any time.  What is kept exactly is what one call of event()    *)
(* does: a manager's event handles any number of the messages that have    *)
(* arrived (the Recv actions, under running = p) and then its own request  *)
(* (HandlePendingRequest, which gives the turn back).  So every schedule   *)
(* of every interconnect is among the behaviours of this module.           *)
(***************************************************************************)
EXTENDS MigConst, Integers, FiniteSets, Bags

CONSTANTS
    Proc,             \* the processors; each has a cache and a manager
    MEM,              \* the memory, as a sender and receiver of messages
    NoProc,           \* no processor
    Addr,             \* the block addresses of the trace
    BlockSize,        \* 2^block_bits
    NumSets,          \* 2^set_bits
    NumLines,         \* lines in a set
    TableSize,        \* entries of the request table
    Interconnect,     \* which of the interconnects is used
    limited_pointers, \* the --pointers option
    UINT_MAX,         \* the largest uint32_t
    MaxMemops         \* length of the trace: memory operations to be issued

Interconnects == {"bus", "crossbar", "ring", "mesh", "torus", "omega"}

\* Block addresses are what issue_new's masking leaves of a trace address, so
\* they are multiples of the block size.  needed_acks can count the processors.
ASSUME ProtocolAssumption ==
    /\ IsFiniteSet(Proc)
    /\ MEM \notin Proc /\ NoProc \notin Proc /\ MEM # NoProc
    /\ BlockSize \in Nat \ {0, 1}
    /\ Addr \subseteq Nat /\ \A a \in Addr : a % BlockSize = 0
    /\ NumSets \in Nat \ {0} /\ NumLines \in Nat \ {0}
    /\ TableSize \in Nat
    /\ Interconnect \in Interconnects
    /\ limited_pointers \in Nat
    /\ UINT_MAX \in Nat /\ Cardinality(Proc) <= UINT_MAX
    /\ MaxMemops \in Nat

VARIABLES
    line,               \* the block's line in a cache, of the lines of its set
    hit_pending,        \* the cache is counting down a hit
    hit_addr,           \* the block of that hit
    coherence_request_pending,  \* the cache waits for its manager
    pending_request,    \* the manager's request
    pending_reissue,    \* it has to be issued again
    table,              \* the request table
    directory,          \* per block, the processors whose bit is set
    net,                \* a bag: queued in links, inboxes and incomming_temp
    memory,             \* per block, for whom the memory is reading it
    running,            \* the processor whose manager's event() is under way
    memops              \* memory operations the trace still holds

vars == <<line, hit_pending, hit_addr, coherence_request_pending,
          pending_request, pending_reissue, table, directory, net, memory,
          running, memops>>

cacheVars   == <<hit_pending, hit_addr, coherence_request_pending, memops>>
requestVars == <<pending_request, pending_reissue, table>>

-----------------------------------------------------------------------------
\* Types

Line   == [valid : BOOLEAN, state : CohState, most_recent : BOOLEAN]
NoLine == [valid |-> FALSE, state |-> "INVALID", most_recent |-> FALSE]

NoAddr == -1
NoTag  == -1
Slot   == 0 .. TableSize - 1

PendingRequest ==
    [type : {"busRd", "busRdX"}, addr : Addr, needed_acks : 0 .. UINT_MAX,
     tag : Slot \cup {NoTag}, got_data : BOOLEAN, shared : BOOLEAN,
     migratory : BOOLEAN]
    \cup [type : {"none"}, addr : {NoAddr}, needed_acks : 0 .. UINT_MAX,
          tag : {NoTag}, got_data : BOOLEAN, shared : BOOLEAN,
          migratory : BOOLEAN]

\* The fields of a request whose type is none are dead until the next one
\* overwrites them all, so a finished request is this one.
NoRequest ==
    [type |-> "none", addr |-> NoAddr, needed_acks |-> 0, tag |-> NoTag,
     got_data |-> FALSE, shared |-> FALSE, migratory |-> FALSE]

\* An entry of the request table whose type is none is free.
Entry     == [addr : Addr, requester : Proc]
FreeEntry == [addr |-> NoAddr, requester |-> NoProc]

CMsg ==
    [type : {"busRd", "busRdX"}, sender : Proc, receiver : Proc \cup {MEM},
     addr : Addr, flags : {{}}]
    \cup [type : {"ack"}, sender : Proc, receiver : Proc \cup {MEM},
          addr : Addr, flags : FlagWord]
    \cup [type : {"data"}, sender : Proc \cup {MEM}, receiver : Proc,
          addr : Addr, flags : {FLAG_SHARED}]

TypeOK ==
    /\ line \in [Proc -> [Addr -> Line]]
    /\ hit_pending \in [Proc -> BOOLEAN]
    /\ hit_addr \in [Proc -> Addr \cup {NoAddr}]
    /\ coherence_request_pending \in [Proc -> BOOLEAN]
    /\ pending_request \in [Proc -> PendingRequest]
    /\ pending_reissue \in [Proc -> BOOLEAN]
    /\ table \in [Slot -> Entry \cup {FreeEntry}]
    /\ directory \in [Addr -> SUBSET Proc]
    /\ IsABag(net) /\ BagToSet(net) \subseteq CMsg
    /\ memory \in [Addr -> Proc \cup {NoProc}]
    /\ running \in Proc \cup {NoProc}
    /\ memops \in 0 .. MaxMemops

-----------------------------------------------------------------------------
\* The request table

exists_unchecked(a) == FALSE
exists(a) == \E i \in Slot : table[i].addr = a

enter_from_one(a) ==
    {i \in 1 .. TableSize : /\ i \in Slot => table[i] = FreeEntry
                            /\ \A j \in 1 .. i - 1 : table[j].addr \notin {NoAddr, a}}

\* The slots enter() may return: the first free one, unless a used one before
\* it already holds the block.  The empty set stands for its -1.
enter(a) ==
    {i \in Slot : /\ table[i] = FreeEntry
                  /\ \A j \in 0 .. i - 1 : table[j].addr \notin {NoAddr, a}}

-----------------------------------------------------------------------------
\* The directory and the interconnect.  The bus has no directory.

UsesDirectory == Interconnect # "bus"

num_proc(a) == Cardinality(directory[a])

\* The limited-pointer scheme gives up on a block that has too many sharers.
\* The mesh makes the test of limited_pointers the other way round.
broadcast_needed(a) ==
    /\ IF Interconnect = "mesh" THEN limited_pointers = 0
                                ELSE limited_pointers # 0
    /\ num_proc(a) > limited_pointers

Broadcasting(a) == ~UsesDirectory \/ broadcast_needed(a)

\* The processors a request of p for block a is sent to, besides the memory.
Receivers(p, a) == (IF Broadcasting(a) THEN Proc ELSE directory[a]) \ {p}

\* uint32_t arithmetic
Decrement(n) == IF n = 0 THEN UINT_MAX ELSE n - 1

acks_for_directory_only(p, a) ==
    IF p \in directory[a] THEN Decrement(num_proc(a)) ELSE num_proc(a)

\* How many acknowledgements read() and write() wait for.
acks_for(p, a) ==
    IF Broadcasting(a) THEN Cardinality(Proc) - 1
    ELSE IF p \in directory[a] THEN Decrement(num_proc(a))
    ELSE num_proc(a)

Request(p, t, a, q) ==
    [type |-> t, sender |-> p, receiver |-> q, addr |-> a, flags |-> {}]

broadcast(p, t, a) == {Request(p, t, a, q) : q \in Receivers(p, a) \cup {MEM}}

\* The acknowledgement of m; the memory gets a copy on the bus, or when it is
\* told that the holder transmits the block.
send_ack(p, m, flags) ==
    {[type |-> "ack", sender |-> p, receiver |-> q, addr |-> m.addr,
      flags |-> flags]
     : q \in {m.sender} \cup
              (IF ~UsesDirectory \/ flags \cap FLAG_TRANSMIT # {} THEN {MEM} ELSE {})}

Data(p, q, a) ==
    [type |-> "data", sender |-> p, receiver |-> q, addr |-> a,
     flags |-> FLAG_SHARED]

Send(out) == net' = net (+) SetToBag(out)
Exchange(in, out) == net' = (net (-) SetToBag({in})) (+) SetToBag(out)

-----------------------------------------------------------------------------
\* MigratoryManager::read and ::write, which differ in the type only: p asks for
\* block a.  When the block already has an entry in the table, or the table is
\* full, the request waits to be issued again.

Issue(p, t, a) ==
    LET req(tag) == [type |-> t, addr |-> a, needed_acks |-> acks_for(p, a),
                     tag |-> tag, got_data |-> FALSE, shared |-> FALSE,
                     migratory |-> FALSE]
    IN  \/ /\ exists(a) \/ enter(a) = {}
           /\ pending_request' = [pending_request EXCEPT ![p] = req(NoTag)]
           /\ pending_reissue' = [pending_reissue EXCEPT ![p] = TRUE]
           /\ UNCHANGED <<table, net>>
        \/ /\ ~exists(a)
           /\ \E i \in enter(a) :
                 /\ table' = [table EXCEPT ![i] = [addr |-> a, requester |-> p]]
                 /\ pending_request' = [pending_request EXCEPT ![p] = req(i)]
           /\ pending_reissue' = [pending_reissue EXCEPT ![p] = FALSE]
           /\ Send(broadcast(p, t, a))

-----------------------------------------------------------------------------
\* Cache::event.  A pending hit, if any, has been counted down to zero and the
\* cache takes the next operation of the trace, if there is one for it.

CacheTurn(p) == running = NoProc /\ ~coherence_request_pending[p]

Idle(p) ==
    /\ CacheTurn(p)
    /\ hit_pending[p]
    /\ hit_pending' = [hit_pending EXCEPT ![p] = FALSE]
    /\ UNCHANGED <<line, hit_addr, coherence_request_pending, requestVars,
                   directory, net, memory, running, memops>>

TakeMemop(p) == CacheTurn(p) /\ memops > 0 /\ memops' = memops - 1

Found(p, a) == line[p][a].valid

StartHit(p, a) ==
    /\ hit_pending' = [hit_pending EXCEPT ![p] = TRUE]
    /\ hit_addr' = [hit_addr EXCEPT ![p] = a]
    /\ UNCHANGED <<coherence_request_pending, requestVars, directory, net,
                   memory, running>>

Miss(p, t, a) ==
    /\ hit_pending' = [hit_pending EXCEPT ![p] = FALSE]
    /\ coherence_request_pending' =
          [coherence_request_pending EXCEPT ![p] = TRUE]
    /\ Issue(p, t, a)
    /\ UNCHANGED <<line, hit_addr, directory, memory, running>>

ReadHit(p, a) ==
    /\ TakeMemop(p)
    /\ Found(p, a) /\ can_read(line[p][a].state)
    /\ StartHit(p, a)
    /\ UNCHANGED line

ReadMiss(p, a) ==
    /\ TakeMemop(p)
    /\ ~(Found(p, a) /\ can_read(line[p][a].state))
    /\ Miss(p, "busRd", a)

WriteHit(p, a) ==
    /\ TakeMemop(p)
    /\ Found(p, a) /\ can_write(line[p][a].state)
    /\ StartHit(p, a)
    /\ UNCHANGED line

WriteUpgrade(p, a) ==
    /\ TakeMemop(p)
    /\ Found(p, a) /\ rw_upgrade(line[p][a].state)
    /\ line' = [line EXCEPT ![p][a].state = rw_upgrade_state(@)]
    /\ StartHit(p, a)

WriteMiss(p, a) ==
    /\ TakeMemop(p)
    /\ Found(p, a) => /\ ~can_write(line[p][a].state)
                      /\ ~rw_upgrade(line[p][a].state)
    /\ Miss(p, "busRdX", a)

-----------------------------------------------------------------------------
\* MigratoryManager::handle_incomming, one message at a time.

Turn(p) == running \in {NoProc, p}

Receive(p, m, types) ==
    /\ Turn(p)
    /\ BagIn(m, net) /\ m.receiver = p /\ m.type \in types
    /\ running' = p

\* Cache::get_hit_addr returns a bool: the hit's block address as a truth value.
get_hit_addr(p) == IF hit_addr[p] = 0 THEN 0 ELSE 1

Deferred_after_the_hit(p, m) == m.addr = get_hit_addr(p)

\* A request that is not ready to be acknowledged stays queued.
Deferred(p, m) == hit_pending[p] /\ m.addr = get_hit_addr(p)

\* What p answers a request with: the acknowledgement and, if its copy was the
\* most recent one, the block.
Answer(p, m, flags) ==
    LET supplies == BoolWord(Found(p, m.addr))
                       \cap BoolWord(line[p][m.addr].most_recent)
    IN  send_ack(p, m, flags \cup (supplies \cap FLAG_TRANSMIT))
        \cup (IF supplies # {} THEN {Data(p, m.sender, m.addr)} ELSE {})

RecvBusRd_stays_supplier(p, m) ==
    /\ Receive(p, m, {"busRd"})
    /\ ~Deferred(p, m)
    /\ LET s == line[p][m.addr].state
       IN IF Found(p, m.addr)
          THEN /\ line' = [line EXCEPT ![p][m.addr] =
                             [@ EXCEPT !.valid = s # "MIGRATORY_DIRTY",
                                       !.state = busRd_state(s)]]
               /\ Exchange(m, Answer(p, m, busRd_flags(s)))
          ELSE /\ Exchange(m, Answer(p, m, {}))
               /\ UNCHANGED line
    /\ UNCHANGED <<cacheVars, requestVars, directory, memory>>

RecvBusRd_stays_valid(p, m) ==
    /\ Receive(p, m, {"busRd"})
    /\ ~Deferred(p, m)
    /\ LET s == line[p][m.addr].state
       IN IF Found(p, m.addr)
          THEN /\ line' = [line EXCEPT ![p][m.addr] =
                             [@ EXCEPT !.state = busRd_state(s), !.most_recent = FALSE]]
               /\ Exchange(m, Answer(p, m, busRd_flags(s)))
          ELSE /\ Exchange(m, Answer(p, m, {}))
               /\ UNCHANGED line
    /\ UNCHANGED <<cacheVars, requestVars, directory, memory>>

RecvBusRd(p, m) ==
    /\ Receive(p, m, {"busRd"})
    /\ ~Deferred(p, m)
    /\ LET s == line[p][m.addr].state
       IN IF Found(p, m.addr)
          THEN /\ line' = [line EXCEPT ![p][m.addr] =
                             [valid |-> s # "MIGRATORY_DIRTY",
                              state |-> busRd_state(s), most_recent |-> FALSE]]
               /\ Exchange(m, Answer(p, m, busRd_flags(s)))
          ELSE /\ Exchange(m, Answer(p, m, {}))
               /\ UNCHANGED line
    /\ UNCHANGED <<cacheVars, requestVars, directory, memory>>

RecvBusRdX(p, m) ==
    /\ Receive(p, m, {"busRdX"})
    /\ ~Deferred(p, m)
    /\ IF Found(p, m.addr)
       THEN /\ line' = [line EXCEPT ![p][m.addr] = NoLine]
            /\ Exchange(m, Answer(p, m, busRdX_flags(line[p][m.addr].state)))
       ELSE /\ Exchange(m, Answer(p, m, {}))
            /\ UNCHANGED line
    /\ UNCHANGED <<cacheVars, requestVars, directory, memory>>

\* The request p is waiting for is for the block of m.
Matches(p, m) ==
    pending_request[p].type # "none" /\ m.addr = pending_request[p].addr

RecvAck(p, m) ==
    /\ Receive(p, m, {"ack"})
    /\ pending_request' = [pending_request EXCEPT
          ![p].needed_acks =
             IF Matches(p, m) /\ m.sender # MEM THEN Decrement(@) ELSE @,
          ![p].shared    = @ \/ m.flags \cap FLAG_SHARED # {},
          ![p].migratory = @ \/ m.flags \cap FLAG_MIGRATORY # {}]
    /\ Exchange(m, {})
    /\ UNCHANGED <<line, cacheVars, pending_reissue, table, directory, memory>>

RecvData(p, m) ==
    /\ Receive(p, m, {"data"})
    /\ pending_request' =
          [pending_request EXCEPT ![p].got_data = @ \/ Matches(p, m)]
    /\ Exchange(m, {})
    /\ UNCHANGED <<line, cacheVars, pending_reissue, table, directory, memory>>

-----------------------------------------------------------------------------
\* MigratoryManager::handle_pending_request, which ends the manager's event.

set_of(a) == {b \in Addr : (b \div BlockSize) % NumSets = (a \div BlockSize) % NumSets}

\* Which block of the set allocate() throws out for a, and a itself when nothing
\* is: the block is there, or a line of its set is invalid.  The order of the
\* lines in a set, which decides between valid ones, is not modelled.
victims(p, a) ==
    LET valid == {b \in set_of(a) : line[p][b].valid}
    IN  IF Found(p, a) \/ Cardinality(valid) < NumLines THEN {a} ELSE valid

\* Cache::complete_read and ::complete_write, which do the same.
complete(p, a, s) ==
    /\ \E v \in victims(p, a) :
          line' = [line EXCEPT ![p] =
             [b \in Addr |->
                IF b = a THEN [valid |-> TRUE, state |-> s, most_recent |-> TRUE]
                ELSE IF b = v THEN NoLine
                ELSE @[b]]]
    /\ coherence_request_pending' =
          [coherence_request_pending EXCEPT ![p] = FALSE]

add_to_directory_alone(p, a) ==
    directory' = IF UsesDirectory
                 THEN [directory EXCEPT ![a] = {p}] ELSE directory

add_to_directory(p, a) ==
    directory' = IF UsesDirectory
                 THEN [directory EXCEPT ![a] = @ \cup {p}] ELSE directory

set_new_directory(p, a) ==
    directory' = IF UsesDirectory
                 THEN [directory EXCEPT ![a] = {p}] ELSE directory

\* request_table.del(tag); pending_request.type = none
Retire(p) ==
    /\ table' = [table EXCEPT ![pending_request[p].tag] = FreeEntry]
    /\ pending_request' = [pending_request EXCEPT ![p] = NoRequest]
    /\ pending_reissue' = [pending_reissue EXCEPT ![p] = FALSE]

MustReissue(p) == pending_reissue[p] /\ ~exists(pending_request[p].addr)

Completed_with_data(p) ==
    /\ ~pending_reissue[p]
    /\ pending_request[p].type # "none"
    /\ pending_request[p].got_data

Completed(p) ==
    /\ ~pending_reissue[p]
    /\ pending_request[p].type # "none"
    /\ pending_request[p].needed_acks = 0
    /\ pending_request[p].got_data

Reissue(p) ==
    /\ MustReissue(p)
    /\ Issue(p, pending_request[p].type, pending_request[p].addr)
    /\ UNCHANGED <<line, coherence_request_pending, directory>>

CompleteRead(p) ==
    LET req == pending_request[p]
    IN  /\ Completed(p) /\ req.type = "busRd"
        /\ add_to_directory(p, req.addr)
        /\ complete(p, req.addr, read_state(req.shared, req.migratory))
        /\ Retire(p)
        /\ UNCHANGED net

CompleteWrite(p) ==
    LET req == pending_request[p]
        own == IF Found(p, req.addr) THEN line[p][req.addr].state ELSE "INVALID"
    IN  /\ Completed(p) /\ req.type = "busRdX"
        /\ set_new_directory(p, req.addr)
        /\ complete(p, req.addr, write_state(own, req.migratory))
        /\ Retire(p)
        /\ UNCHANGED net

NothingToDo(p) ==
    /\ running = p /\ ~MustReissue(p) /\ ~Completed(p)
    /\ UNCHANGED <<line, coherence_request_pending, requestVars, directory, net>>

HandlePendingRequest(p) ==
    /\ Turn(p)
    /\ \/ Reissue(p)
       \/ CompleteRead(p)
       \/ CompleteWrite(p)
       \/ NothingToDo(p)
    /\ running' = NoProc
    /\ UNCHANGED <<hit_pending, hit_addr, memory, memops>>

-----------------------------------------------------------------------------
\* MigMemory::event.  One read per block is under way; a later request for the
\* block takes its place, an acknowledgement that says that the holder
\* transmits the block stops it.

MemReceive(m) ==
    /\ running = NoProc
    /\ BagIn(m, net) /\ m.receiver = MEM
    /\ Exchange(m, {})
    /\ memory' =
          IF m.type \in {"busRd", "busRdX"}
          THEN [memory EXCEPT ![m.addr] = m.sender]
          ELSE IF m.type = "ack" /\ m.flags \cap FLAG_TRANSMIT # {}
          THEN [memory EXCEPT ![m.addr] = NoProc]
          ELSE memory
    /\ UNCHANGED <<line, cacheVars, requestVars, directory, running>>

MemAnswer(a) ==
    /\ running = NoProc
    /\ memory[a] # NoProc
    /\ Send({Data(MEM, memory[a], a)})
    /\ memory' = [memory EXCEPT ![a] = NoProc]
    /\ UNCHANGED <<line, cacheVars, requestVars, directory, running>>

-----------------------------------------------------------------------------
Init ==
    /\ line = [p \in Proc |-> [a \in Addr |-> NoLine]]
    /\ hit_pending = [p \in Proc |-> FALSE]
    /\ hit_addr = [p \in Proc |-> NoAddr]
    /\ coherence_request_pending = [p \in Proc |-> FALSE]
    /\ pending_request = [p \in Proc |-> NoRequest]
    /\ pending_reissue = [p \in Proc |-> FALSE]
    /\ table = [i \in Slot |-> FreeEntry]
    /\ directory = [a \in Addr |-> {}]
    /\ net = EmptyBag
    /\ memory = [a \in Addr |-> NoProc]
    /\ running = NoProc
    /\ memops = MaxMemops

CacheEvent(p) ==
    \/ Idle(p)
    \/ \E a \in Addr : \/ ReadHit(p, a) \/ ReadMiss(p, a)
                       \/ WriteHit(p, a) \/ WriteUpgrade(p, a) \/ WriteMiss(p, a)

Recv(p, m) ==
    \/ RecvBusRd(p, m) \/ RecvBusRdX(p, m)
    \/ RecvAck(p, m) \/ RecvData(p, m)

HandleIncomming(p) == \E m \in BagToSet(net) : Recv(p, m)

MemoryEvent ==
    \/ \E m \in BagToSet(net) : MemReceive(m)
    \/ \E a \in Addr : MemAnswer(a)

Next ==
    \/ \E p \in Proc : CacheEvent(p) \/ HandleIncomming(p) \/ HandlePendingRequest(p)
    \/ MemoryEvent

Spec == Init /\ [][Next]_vars

-----------------------------------------------------------------------------
(***************************************************************************)
(* Properties                                                              *)
(***************************************************************************)

\* The request of p has been sent: it holds an entry of the request table.
Active(p) == pending_request[p].type # "none" /\ ~pending_reissue[p]

Exclusive(p, a) ==
    line[p][a].state \in {"EXCLUSIVE", "DIRTY", "MIGRATORY_CLEAN", "MIGRATORY_DIRTY"}

\* A cache that may write a block, at once or by a silent upgrade, is the only
\* one that has a copy of it, whatever is in flight (what check_states of the
\* consistency checker reports on, for the clean exclusive states too).
SingleWriter ==
    \A a \in Addr, p, q \in Proc :
        Exclusive(p, a) /\ p # q => ~line[q][a].valid

\* A cache that holds a block has its bit set in the directory, although the
\* caches never tell it of an eviction: what check_directory asserts on every
\* send_ack of the crossbar, the mesh and the torus.
DirectoryCovers ==
    UsesDirectory =>
        \A p \in Proc, a \in Addr : line[p][a].valid => p \in directory[a]

\* At most one cache answers a request with the block; one that may write it
\* does (its copy is the only current one).
OneSupplier ==
    \A a \in Addr, p \in Proc :
        /\ Exclusive(p, a) => line[p][a].most_recent
        /\ \A q \in Proc \ {p} : line[p][a].most_recent => ~line[q][a].most_recent

\* The requests and acknowledgements on their way to a processor.
Traffic == {m \in BagToSet(net) : m.type # "data" /\ m.receiver # MEM}

\* The processors whose acknowledgement the request of p still waits for: its
\* request is on the way to them, or their acknowledgement on the way back.
RequestTo(p, q) ==
    Request(p, pending_request[p].type, pending_request[p].addr, q)

AcksFrom(p, q) ==
    {m \in Traffic : m.type = "ack" /\ m.receiver = p /\ m.sender = q}

Waiting(p) ==
    {q \in Proc \ {p} : RequestTo(p, q) \in Traffic \/ AcksFrom(p, q) # {}}

\* needed_acks counts exactly the acknowledgements that are still to come, so it
\* never wraps below zero and never stays above it; no processor is asked twice
\* or answers twice, and no request or acknowledgement outlives its request.
AcksExact ==
    /\ \A p \in Proc : Active(p) =>
          /\ pending_request[p].needed_acks = Cardinality(Waiting(p))
          /\ \A q \in Proc \ {p} :
                /\ \A m, n \in AcksFrom(p, q) : m = n
                /\ RequestTo(p, q) \in Traffic => AcksFrom(p, q) = {}
    /\ \A m \in Traffic :
          LET p == IF m.type = "ack" THEN m.receiver ELSE m.sender
          IN  net[m] = 1 /\ Active(p) /\ pending_request[p].addr = m.addr

\* No block has two entries in the request table (check_requests), a used entry
\* is the one its requester will delete, and a sent request has one: del(tag)
\* never frees the entry of somebody else.
TableOwnership ==
    /\ \A i, j \in Slot : i # j /\ table[i] # FreeEntry => table[i].addr # table[j].addr
    /\ \A i \in Slot : table[i] # FreeEntry =>
          /\ Active(table[i].requester)
          /\ pending_request[table[i].requester].tag = i
    /\ \A p \in Proc : Active(p) =>
          /\ pending_request[p].tag \in Slot
          /\ table[pending_request[p].tag] =
                [addr |-> pending_request[p].addr, requester |-> p]

\* A request that an acknowledgement has called migratory, or is about to, is
\* for a block that no other cache has: the requester may take it exclusively
\* on a mere read.
MigrationMovesTheBlock ==
    \A p \in Proc :
        /\ Active(p) /\ pending_request[p].type = "busRd"
        /\ \/ pending_request[p].migratory
           \/ \E m \in Traffic : /\ m.type = "ack" /\ m.receiver = p
                                 /\ m.flags \cap FLAG_MIGRATORY # {}
        => \A q \in Proc : ~line[q][pending_request[p].addr].valid

\* No assert(false) of the manager is reached: a line that is found is not
\* INVALID, a cache is waiting exactly when its manager has a request, what is
\* reissued is a request, and a line in a migratory state, or a write that would
\* end in one, only occurs with --mig.
AssertsHold ==
    \A p \in Proc :
        /\ coherence_request_pending[p] <=> pending_request[p].type # "none"
        /\ pending_reissue[p] => pending_request[p].type # "none"
        /\ \A a \in Addr :
              /\ line[p][a].valid <=> line[p][a].state # "INVALID"
              /\ line[p][a].state \in {"MIGRATORY_CLEAN", "MIGRATORY_DIRTY"} => do_mig
              /\ pending_request[p].type = "busRdX" /\ pending_request[p].addr = a
                    => line[p][a].state \in {"INVALID", "SHARED", "SHARED2"}
              /\ pending_request[p].type = "busRd" /\ pending_request[p].addr = a
                    => line[p][a].state = "INVALID"

\* A block stays in the cache while a hit on it is counted down: the requests of
\* others that would take it away are put back (handle_incomming's "messages
\* we're not ready to ack yet").
HitKeepsLine ==
    \A p \in Proc : hit_pending[p] => line[p][hit_addr[p]].valid

=============================================================================
