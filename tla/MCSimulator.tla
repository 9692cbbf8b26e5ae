----------------------------- MODULE MCSimulator -----------------------------
(***************************************************************************)
(* Simulators for TLC, one for each interconnect; TLC chooses one of those *)
(* in Chosen to begin with.                                                *)
(***************************************************************************)
EXTENDS Integers, Sequences, FiniteSets

CONSTANT Chosen

VARIABLES
    which,            \* the interconnect of the simulator that was chosen
    line, hit_pending, hit_addr, coherence_request_pending, pending_request,
    pending_reissue, table, directory, net, memory, running, memops,
    trace, hit_countdown, cache_done, recency, inbox, interconnects, current,
    aborted, bus, count, turn, ndone

vars == <<which, line, hit_pending, hit_addr, coherence_request_pending,
          pending_request, pending_reissue, table, directory, net, memory, running,
          memops, trace, hit_countdown, cache_done, recency, inbox, interconnects,
          current, aborted, bus, count, turn, ndone>>

NoProc    == -1
BlockSize == 64
NumSets   == 1
UINT_MAX  == 15
limited_pointers == 0

op(t, a) == [type |-> t, addr |-> a]

\* Two processors, each with two operations on two blocks that compete for a line.
Pairs == {<<op(s, a), op(t, b)>> : s, t \in {"read", "write"}, a, b \in {0, 64}}
TwoByTwo == [{0, 1} -> Pairs]

\* A third processor that only reads block 0.
ThreeReaders == {[p \in 0 .. 2 |-> IF p = 2 THEN <<op("read", 0)>> ELSE t[p]] : t \in TwoByTwo}

\* A hit lasts longer than a message: requests are put back.
Bus == INSTANCE Simulator WITH
    Interconnect <- "bus", do_mig <- FALSE, Proc <- 0 .. 2, MEM <- 3, Addr <- {0, 64},
    NumLines <- 1, TableSize <- 1, MaxMemops <- 5, numa <- FALSE, unidirectional <- FALSE,
    BUS_DLY <- 2, HIT_LATENCY <- 4, latency <- 4, Traces <- ThreeReaders

\* The memory is spread over the nodes.
Crossbar == INSTANCE Simulator WITH
    Interconnect <- "crossbar", do_mig <- TRUE, Proc <- 0 .. 1, MEM <- 2, Addr <- {0, 64},
    NumLines <- 1, TableSize <- 2, MaxMemops <- 4, numa <- TRUE, unidirectional <- TRUE,
    BUS_DLY <- 2, HIT_LATENCY <- 4, latency <- 4, Traces <- TwoByTwo

\* Four nodes, with links of two cycles.
Ring == INSTANCE Simulator WITH
    Interconnect <- "ring", do_mig <- TRUE, Proc <- 0 .. 2, MEM <- 3, Addr <- {0, 64},
    NumLines <- 1, TableSize <- 2, MaxMemops <- 5, numa <- FALSE, unidirectional <- FALSE,
    BUS_DLY <- 2, HIT_LATENCY <- 3, latency <- 4, Traces <- ThreeReaders

Mesh == INSTANCE Simulator WITH
    Interconnect <- "mesh", do_mig <- TRUE, Proc <- 0 .. 2, MEM <- 3, Addr <- {0, 64},
    NumLines <- 1, TableSize <- 2, MaxMemops <- 5, numa <- FALSE, unidirectional <- TRUE,
    BUS_DLY <- 1, HIT_LATENCY <- 2, latency <- 4, Traces <- ThreeReaders

\* Four nodes, a full square.
Torus == INSTANCE Simulator WITH
    Interconnect <- "torus", do_mig <- TRUE, Proc <- 0 .. 2, MEM <- 3, Addr <- {0, 64},
    NumLines <- 1, TableSize <- 2, MaxMemops <- 5, numa <- FALSE, unidirectional <- FALSE,
    BUS_DLY <- 1, HIT_LATENCY <- 2, latency <- 4, Traces <- ThreeReaders

Omega == INSTANCE Simulator WITH
    Interconnect <- "omega", do_mig <- TRUE, Proc <- 0 .. 2, MEM <- 3, Addr <- {0, 64},
    NumLines <- 1, TableSize <- 2, MaxMemops <- 5, numa <- FALSE, unidirectional <- FALSE,
    BUS_DLY <- 1, HIT_LATENCY <- 2, latency <- 2, Traces <- ThreeReaders

\* Ten processors and a memory with the delays of the code (bus.hpp, main.cpp,
\* mig_memory.hpp), caches of one line and the following trace.  Processor 5 has
\* block 0, 3 has block 64; 4 takes one after the other from these neighbours and has
\* lost block 0 when 0, which has waited for it to complete, asks for it.
A == 0
B == 64
LongTrace ==
    [p \in 0 .. 9 |->
        CASE p = 5 -> <<op("read", A)>>
          [] p = 3 -> <<op("read", B)>>
          [] p = 4 -> <<op("read", 128), op("write", A), op("read", B)>>
          [] p = 0 -> <<op("read", 192), op("read", A)>>
          [] OTHER -> <<>>]

LongRing == INSTANCE Simulator WITH
    Interconnect <- "ring", do_mig <- TRUE, Proc <- 0 .. 9, MEM <- 10,
    Addr <- {0, 64, 128, 192}, NumLines <- 1, TableSize <- 8, MaxMemops <- 7,
    numa <- FALSE, unidirectional <- FALSE, BUS_DLY <- 10, HIT_LATENCY <- 11,
    latency <- 100, Traces <- {LongTrace}

Init ==
    /\ which \in Chosen
    /\ \/ which = "bus" /\ Bus!SimInit
       \/ which = "crossbar" /\ Crossbar!SimInit
       \/ which = "ring" /\ Ring!SimInit
       \/ which = "mesh" /\ Mesh!SimInit
       \/ which = "torus" /\ Torus!SimInit
       \/ which = "omega" /\ Omega!SimInit
       \/ which = "long ring" /\ LongRing!SimInit

Next ==
    /\ \/ which = "bus" /\ Bus!SimNext
       \/ which = "crossbar" /\ Crossbar!SimNext
       \/ which = "ring" /\ Ring!SimNext
       \/ which = "mesh" /\ Mesh!SimNext
       \/ which = "torus" /\ Torus!SimNext
       \/ which = "omega" /\ Omega!SimNext
       \/ which = "long ring" /\ LongRing!SimNext
    /\ UNCHANGED which

\* As in Simulator: its loop goes on.
Spec == Init /\ [][Next]_vars /\ WF_vars(Next)

-----------------------------------------------------------------------------
\* The bus counts the acknowledgements of the request it has delivered.
BusCountsAcks == which = "bus" => Bus!BusCountsAcks

\* Whatever the interconnect, every miss is completed and the simulation ends.
SimulationEnds == <>(turn = <<"over", 0>>)

=============================================================================
