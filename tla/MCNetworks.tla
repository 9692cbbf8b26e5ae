----------------------------- MODULE MCNetworks -----------------------------
(***************************************************************************)
(* The crossbar, the ring, the mesh, the torus and the omega network side  *)
(* by side: TLC chooses one of them to begin with.                         *)
(***************************************************************************)
EXTENDS Integers, Sequences

VARIABLES
    which,            \* the network that was chosen
    interconnects, received, sent, current, aborted

vars == <<which, interconnects, received, sent, current, aborted>>

\* Links of two cycles, and the memory spread over the nodes.
Crossbar ==
    INSTANCE Network WITH Interconnect <- "crossbar", nproc <- 2, numa <- TRUE,
        unidirectional <- TRUE, BUS_DLY <- 2, Addr <- {0, 4096}, MaxMessages <- 2

\* Both ways round, links of two cycles, and the memory spread over the nodes.
Ring ==
    INSTANCE Network WITH Interconnect <- "ring", nproc <- 3, numa <- TRUE,
        unidirectional <- FALSE, BUS_DLY <- 2, Addr <- {0, 4096}, MaxMessages <- 2

\* Five nodes: the last row is not full.
Mesh ==
    INSTANCE Network WITH Interconnect <- "mesh", nproc <- 4, numa <- FALSE,
        unidirectional <- FALSE, BUS_DLY <- 1, Addr <- {0}, MaxMessages <- 2

\* Nine nodes, a full square.
Torus ==
    INSTANCE Network WITH Interconnect <- "torus", nproc <- 8, numa <- FALSE,
        unidirectional <- FALSE, BUS_DLY <- 1, Addr <- {0}, MaxMessages <- 1

Omega ==
    INSTANCE Network WITH Interconnect <- "omega", nproc <- 3, numa <- FALSE,
        unidirectional <- FALSE, BUS_DLY <- 1, Addr <- {0}, MaxMessages <- 2

Init ==
    \/ which = "crossbar" /\ Crossbar!Init
    \/ which = "ring" /\ Ring!Init
    \/ which = "mesh" /\ Mesh!Init
    \/ which = "torus" /\ Torus!Init
    \/ which = "omega" /\ Omega!Init

Step ==
    /\ \/ which = "crossbar" /\ Crossbar!Step
       \/ which = "ring" /\ Ring!Step
       \/ which = "mesh" /\ Mesh!Step
       \/ which = "torus" /\ Torus!Step
       \/ which = "omega" /\ Omega!Step
    /\ UNCHANGED which

Sending ==
    /\ \/ which = "crossbar" /\ Crossbar!Sending
       \/ which = "ring" /\ Ring!Sending
       \/ which = "mesh" /\ Mesh!Sending
       \/ which = "torus" /\ Torus!Sending
       \/ which = "omega" /\ Omega!Sending
    /\ UNCHANGED which

Next == Step \/ Sending

\* As in Network: the simulator calls event() in every cycle.
Spec == Init /\ [][Next]_vars /\ WF_vars(Step)

-----------------------------------------------------------------------------
TypeOK ==
    /\ which \in {"crossbar", "ring", "mesh", "torus", "omega"}
    /\ which = "crossbar" => Crossbar!ParametersOK /\ Crossbar!TypeOK
    /\ which = "ring" => Ring!ParametersOK /\ Ring!TypeOK
    /\ which = "mesh" => Mesh!ParametersOK /\ Mesh!TypeOK
    /\ which = "torus" => Torus!ParametersOK /\ Torus!TypeOK
    /\ which = "omega" => Omega!ParametersOK /\ Omega!TypeOK

\* Whatever the network, event() takes no message and no direction from an empty
\* queue, and the two queues of a link stay in step.
FrontExists ==
    /\ which = "crossbar" => Crossbar!FrontExists
    /\ which = "ring" => Ring!FrontExists
    /\ which = "mesh" => Mesh!FrontExists
    /\ which = "torus" => Torus!FrontExists
    /\ which = "omega" => Omega!FrontExists

\* Whatever the network, a message that has been sent is in one queue, or has been
\* delivered once, to the receiver it was sent to.
ExactlyOnce ==
    /\ which = "crossbar" => Crossbar!ExactlyOnce
    /\ which = "ring" => Ring!ExactlyOnce
    /\ which = "mesh" => Mesh!ExactlyOnce
    /\ which = "torus" => Torus!ExactlyOnce
    /\ which = "omega" => Omega!ExactlyOnce

\* On the ring, on the mesh and in the omega network every hop takes its message
\* nearer to its receiver (on the torus some do not), whatever the queues make the
\* router choose.
EveryHopApproaches ==
    /\ which = "ring" => Ring!EveryHopApproaches
    /\ which = "mesh" => Mesh!EveryHopApproaches
    /\ which = "omega" => Omega!EveryHopApproaches

\* The asserts of next() and event() hold: the router always finds a neighbour that
\* exists, also on a mesh whose last row is not full.
RoutingAsserts ==
    /\ which = "ring" => Ring!RoutingAsserts
    /\ which = "mesh" => Mesh!RoutingAsserts
    /\ which = "torus" => Torus!RoutingAsserts

\* On the crossbar two messages about one block between the same receivers arrive in
\* the order in which they were sent, with the memory spread over the nodes.
CrossbarInOrder == which = "crossbar" => Crossbar!PairsInOrder

\* Every message arrives, also on the torus, where a hop may lead away from its
\* receiver.
MessagesArrive ==
    \A id \in 1 .. 2 :
        sent >= id ~>
            \E r \in DOMAIN received : \E i \in 1 .. Len(received[r]) : received[r][i].id = id

=============================================================================
