------------------------------- MODULE Network -------------------------------
(***************************************************************************)
(* The links of an interconnect: Crossbar, Ring, Mesh, Torus and Omega have*)
(* the same event() and send(), around their own next().  Each link is a   *)
(* queue of messages, a queue of the directions they go (a bidirectional   *)
(* link is one queue for both) and a countdown.  The managers and the      *)
(* memory that send and receive are external here: any of them may send    *)
(* anything between two events.                                            *)
(***************************************************************************)
EXTENDS Routing, Sequences, FiniteSets

CONSTANTS
    numa,             \* memory is spread over the nodes instead of at the last one
    unidirectional,   \* a link of its own for each direction
    BUS_DLY,          \* cycles a message takes on a link
    Addr,             \* block addresses
    MaxMessages       \* bound: messages sent in a behaviour

ParametersOK ==
    /\ RoutingParametersOK
    /\ numa \in BOOLEAN /\ unidirectional \in BOOLEAN
    /\ BUS_DLY \in Nat \ {0}
    /\ Addr \subseteq Nat
    /\ MaxMessages \in Nat

VARIABLES
    interconnects,    \* per link: its queues and its countdown
    received,         \* per receiver: the messages handed to it
    sent,             \* number of messages sent
    current,          \* the link event() is at, if it is under way
    aborted           \* an assert has failed

vars == <<interconnects, received, sent, current, aborted>>

-----------------------------------------------------------------------------
\* Receiver MEM is the memory.  With numa it has no node of its own: a block is in
\* the memory of the node its page belongs to.
MEM      == IF numa THEN nproc + 1 ELSE nproc
Receiver == 0 .. MEM

get_addr_proc(a) == (a \div 4096) % (nproc + 1)

place(r, a) == IF numa /\ r = MEM THEN get_addr_proc(a) ELSE r

Msg == [id : 1 .. MaxMessages, sender : Receiver, receiver : Receiver, addr : Addr]

\* A link is the pair of places it connects; a bidirectional one is filed under
\* the smaller first.
Link == Place \X Place
NoLink == <<NoNode, NoNode>>

index(from, to) ==
    IF unidirectional \/ from <= to THEN <<from, to>> ELSE <<to, from>>

\* Directions are not recorded where links have one, and by the crossbar, whose
\* messages need one hop.
UsesFlip == ~unidirectional /\ Interconnect # "crossbar"

EmptyLink == [incomming |-> <<>>, flip |-> <<>>, delay |-> 0]

\* What event() does with a link does not change it.
Inert(l) == l.delay = 0 /\ l.incomming = <<>>

size(net) == [n \in Node |-> Len(net[<<0, n>>].incomming)]

pushed_in_front(l, m, flipped) ==
    [incomming |-> <<m>> \o l.incomming, delay |-> l.delay,
     flip |-> IF UsesFlip THEN <<flipped>> \o l.flip ELSE l.flip]

pushed_without_flip(l, m, flipped) ==
    [incomming |-> Append(l.incomming, m), delay |-> l.delay,
     flip |-> IF UsesFlip /\ flipped THEN Append(l.flip, flipped) ELSE l.flip]

pushed(l, m, flipped) ==
    [incomming |-> Append(l.incomming, m), delay |-> l.delay,
     flip |-> IF UsesFlip THEN Append(l.flip, flipped) ELSE l.flip]

popped_keeps_flip(l) ==
    [incomming |-> Tail(l.incomming), delay |-> l.delay - 1, flip |-> l.flip]

popped(l) ==
    [incomming |-> Tail(l.incomming), delay |-> l.delay - 1,
     flip |-> IF UsesFlip THEN Tail(l.flip) ELSE l.flip]

\* The node that message m, at node n, goes to next, in the queues net.
hop(net, n, m) == next(n, m.sender, place(m.receiver, m.addr), size(net))

\* m leaves node n for it.
forwarded(net, n, m) ==
    LET to == hop(net, n, m)
    IN  IF to = NoNode THEN net
        ELSE [net EXCEPT ![index(n, to)] = pushed(@, m, to < n)]

-----------------------------------------------------------------------------
\* send(), between two events.

Send(s, r, a) ==
    LET m == [id |-> sent + 1, sender |-> s, receiver |-> r, addr |-> a]
        n == place(s, a)
    IN  /\ ~aborted /\ current = NoLink
        /\ sent < MaxMessages
        /\ sent' = sent + 1
        /\ interconnects' = forwarded(interconnects, n, m)
        /\ aborted' = (hop(interconnects, n, m) = NoNode)
        /\ UNCHANGED <<received, current>>

-----------------------------------------------------------------------------
\* event() goes through the links in the order of their numbers.

before(k, l) == k[1] < l[1] \/ (k[1] = l[1] /\ k[2] < l[2])

\* The first of the given links for which event() has something to do.
Busy(net, links) ==
    LET busy == {l \in links : ~Inert(net[l])}
    IN  IF busy = {} THEN NoLink
        ELSE CHOOSE l \in busy : \A k \in busy \ {l} : before(l, k)

EventBegins ==
    /\ ~aborted /\ current = NoLink
    /\ current' = Busy(interconnects, Link)
    /\ current' # NoLink
    /\ UNCHANGED <<interconnects, received, sent, aborted>>

\* The countdown of the link is over and a message waits: it gets on its way.
Start(l) ==
    /\ interconnects[l].delay = 0
    /\ interconnects' =
          [interconnects EXCEPT ![l].delay =
              IF interconnects[l].incomming = <<>> THEN 0 ELSE BUS_DLY]
    /\ UNCHANGED <<received, aborted>>

\* The tick that ends the countdown; on the ring and in the omega network a link
\* from a node to itself does not wait for it.
Expires(l) ==
    \/ interconnects[l].delay = 1
    \/ Interconnect \in {"ring", "omega"} /\ l[1] = l[2]

Tick_when_done(l) ==
    /\ ~Expires(l)
    /\ interconnects' = [interconnects EXCEPT ![l].delay = @ - 1]
    /\ UNCHANGED <<received, aborted>>

Tick(l) ==
    /\ interconnects[l].delay > 0 /\ ~Expires(l)
    /\ interconnects' = [interconnects EXCEPT ![l].delay = @ - 1]
    /\ UNCHANGED <<received, aborted>>

\* The end of the link a message leaves it at.
Exit(l, flipped) == IF flipped THEN l[1] ELSE l[2]

\* The ring's assert that a link joins neighbours.
Neighbours(l) ==
    Interconnect = "ring" => difference(l[1], l[2]) \in {1, nproc}

\* The crossbar delivers every message at once.
Arrived(m, n) == Interconnect = "crossbar" \/ n = place(m.receiver, m.addr)

\* Who gets a message that has arrived: the memory at a node is a receiver of its
\* own.
recipient_by_node(m) == place(m.receiver, m.addr)

recipient(m) == m.receiver

Arrive(l) ==
    LET m   == Head(interconnects[l].incomming)
        n   == Exit(l, UsesFlip /\ Head(interconnects[l].flip))
        net == [interconnects EXCEPT ![l] = popped(@)]
    IN  /\ interconnects[l].delay > 0 /\ Expires(l)
        /\ IF Arrived(m, n)
           THEN /\ received' = [received EXCEPT ![recipient(m)] = Append(@, m)]
                /\ interconnects' = net
                /\ aborted' = ~Neighbours(l)
           ELSE /\ interconnects' = forwarded(net, n, m)
                /\ aborted' = (~Neighbours(l) \/ hop(net, n, m) = NoNode)
                /\ UNCHANGED received

LinkEvent(l) ==
    /\ ~aborted /\ current = l /\ l # NoLink
    /\ Start(l) \/ Tick(l) \/ Arrive(l)
    /\ current' = Busy(interconnects', {k \in Link : before(l, k)})
    /\ UNCHANGED sent

-----------------------------------------------------------------------------
Init ==
    /\ interconnects = [l \in Link |-> EmptyLink]
    /\ received = [r \in Receiver |-> <<>>]
    /\ sent = 0
    /\ current = NoLink
    /\ aborted = FALSE

Sending == \E s, r \in Receiver, a \in Addr : s # r /\ Send(s, r, a)

Step == EventBegins \/ \E l \in Link : LinkEvent(l)

Next == Sending \/ Step

Spec == Init /\ [][Next]_vars

\* The simulator calls event() in every cycle, and event() visits every link.
Fairness == WF_vars(Step)

FairSpec == Spec /\ Fairness

-----------------------------------------------------------------------------
(***************************************************************************)
(* Properties                                                              *)
(***************************************************************************)

Sub == [incomming : Seq(Msg), flip : Seq(BOOLEAN), delay : 0 .. BUS_DLY]

TypeOK ==
    /\ interconnects \in [Link -> Sub]
    /\ received \in [Receiver -> Seq(Msg)]
    /\ sent \in 0 .. MaxMessages
    /\ current \in Link \cup {NoLink}
    /\ aborted \in BOOLEAN

\* front() and pop() are never called on an empty queue (undefined behaviour): a
\* link that counts down has a message, and the queue of directions, which the
\* code pushes and pops separately, is as long as the queue of messages.
FrontExists ==
    \A l \in Link :
        /\ interconnects[l].delay > 0 => interconnects[l].incomming # <<>>
        /\ Len(interconnects[l].flip) =
              IF UsesFlip THEN Len(interconnects[l].incomming) ELSE 0

\* Each message is in one queue or has been handed to one receiver, its own, and
\* nothing is delivered that has not been sent.
Copies(id) ==
    {c \in Link \X (1 .. MaxMessages) :
        /\ c[2] <= Len(interconnects[c[1]].incomming)
        /\ interconnects[c[1]].incomming[c[2]].id = id}
    \cup {c \in Receiver \X (1 .. MaxMessages) :
        /\ c[2] <= Len(received[c[1]])
        /\ received[c[1]][c[2]].id = id}

ExactlyOnce ==
    /\ \A id \in 1 .. MaxMessages :
          Cardinality(Copies(id)) = IF id <= sent THEN 1 ELSE 0
    /\ \A r \in Receiver : \A i \in 1 .. Len(received[r]) : received[r][i].receiver = r

\* Whatever the queues make the router choose, a hop takes a message nearer to its
\* destination, in the direction the link's queue of directions says it goes.  A
\* message to the node it starts from (numa) has to leave it on a ring.
EveryHopApproaches ==
    \A l \in Link : \A i \in 1 .. Len(interconnects[l].incomming) :
        LET m == interconnects[l].incomming[i]
            dst == place(m.receiver, m.addr)
            flipped == UsesFlip /\ interconnects[l].flip[i]
            to == Exit(l, flipped)
            from == Exit(l, ~flipped)
        IN  Interconnect # "crossbar" /\ from # dst => distance(to, dst) < distance(from, dst)

\* Two messages between the same two receivers about one block arrive in the order
\* in which they were sent.  That is how the queues of the crossbar work; the other networks
\* make no such promise, and no receiver needs it.
PairsInOrder ==
    \A r \in Receiver : \A i, j \in 1 .. Len(received[r]) :
        /\ i < j
        /\ received[r][i].sender = received[r][j].sender
        /\ received[r][i].addr = received[r][j].addr
        => received[r][i].id < received[r][j].id

\* The asserts of event() and next() hold.
RoutingAsserts == ~aborted

\* Every message is delivered.
Delivered(id) ==
    \E r \in Receiver : \E i \in 1 .. Len(received[r]) : received[r][i].id = id

EveryMessageArrives ==
    \A id \in 1 .. MaxMessages : sent >= id ~> Delivered(id)

=============================================================================
