-------------------------- MODULE SimulatorProofs ---------------------------
(***************************************************************************)
(* The cycle-accurate simulator takes only steps of MigratoryProtocol, so  *)
(* what is proved of the protocol holds in every simulation.  The counter  *)
(* of the bus, which MigratoryProtocol does not have, is exact.            *)
(***************************************************************************)
EXTENDS Simulator, CoherenceProofs, WellFoundedInduction

\* A turn of a cache is one of CacheEvent, or none.
LEMMA CacheSteps ==
    ASSUME NEW p \in Proc, CacheWaits(p) \/ CacheIdles(p) \/ CacheIssues(p)
    PROVE  CacheEvent(p) \/ UNCHANGED vars
<1>1. CASE CacheWaits(p)
  BY <1>1 DEF CacheWaits
<1>2. CASE CacheIdles(p)
  BY <1>2 DEF CacheIdles, CacheEvent
<1>3. CASE CacheIssues(p)
  BY <1>3 DEF CacheIssues, CacheEvent
<1> QED
  BY <1>1, <1>2, <1>3

\* A step of a manager handles one message or ends its event, or does nothing.
LEMMA ManagerSteps ==
    ASSUME NEW p \in Proc, ManagerReceives(p) \/ ManagerEnds(p)
    PROVE  HandleIncomming(p) \/ HandlePendingRequest(p) \/ UNCHANGED vars
<1>1. CASE ManagerReceives(p)
  <2>1. PICK m : Recv(p, m)
    BY <1>1 DEF ManagerReceives
  <2>2. m \in BagToSet(net)
    BY <2>1 DEF Recv, RecvBusRd, RecvBusRdX, RecvAck, RecvData, Receive, BagIn
  <2> QED
    BY <2>1, <2>2 DEF HandleIncomming
<1>2. CASE ManagerEnds(p)
  BY <1>2 DEF ManagerEnds
<1> QED
  BY <1>1, <1>2

\* Whatever the simulator does is a step of the protocol or none of its business.
LEMMA SimulatorSteps == [SimNext]_simVars => [Next]_vars
<1> SUFFICES ASSUME SimNext
             PROVE  Next \/ UNCHANGED vars
  BY DEF simVars
<1>1. CASE \E p \in Proc : CacheWaits(p) \/ CacheIdles(p) \/ CacheIssues(p)
  BY <1>1, CacheSteps DEF Next
<1>2. CASE \E p \in Proc : ManagerReceives(p) \/ ManagerEnds(p)
  BY <1>2, ManagerSteps DEF Next
<1>3. CASE BusEvent \/ NetworkBegins \/ NetworkEvent
  BY <1>3 DEF BusEvent, NetworkBegins, NetworkEvent
<1>4. CASE MemoryAnswers
  <2>1. \E a \in Addr : MemAnswer(a)
    BY <1>4 DEF MemoryAnswers, Due
  <2> QED
    BY <2>1 DEF Next, MemoryEvent
<1>5. CASE MemoryReceives
  <2>1. PICK m : MemReceive(m)
    BY <1>5 DEF MemoryReceives
  <2>2. m \in BagToSet(net)
    BY <2>1 DEF MemReceive, BagIn
  <2> QED
    BY <2>1, <2>2 DEF Next, MemoryEvent
<1>6. CASE MemoryTicks \/ CycleEnds
  BY <1>6 DEF MemoryTicks, CycleEnds
<1> QED
  BY <1>1, <1>2, <1>3, <1>4, <1>5, <1>6 DEF SimNext

\* A simulation is a behaviour of MigratoryProtocol: the order in which the caches,
\* the managers and the memory take their turns, the links and queues messages travel
\* through and the line that is replaced are choices that it leaves open.
THEOREM SimulatorImplementsProtocol == SimSpec => Spec
<1>1. SimInit => Init
  BY DEF SimInit
<1> QED
  BY <1>1, SimulatorSteps, PTL DEF SimSpec, Spec

\* Coherence in every simulation: on any interconnect, with any delays and traces, a
\* cache that may write a block is the only one that has a copy of it.
THEOREM SimulatorCoherent == SimSpec => [](SingleWriter /\ AcksExact /\ AssertsHold)
  BY SimulatorImplementsProtocol, SingleWriterCorrect, AcksCorrect, AssertsCorrect, PTL

-----------------------------------------------------------------------------
\* Sequences and bags

\* SetToSeq of a set of at most one element.
LEMMA SmallToSeq ==
    /\ S!SetToSeq({}) = <<>>
    /\ \A m : S!SetToSeq({m}) = <<m>>
<1>1. /\ S!Cardinality({}) = 0
      /\ \A m : S!Cardinality({m}) = 1
  <2>1. \A T : S!Cardinality(T) = Cardinality(T)
    BY DEF S!Cardinality, Cardinality
  <2> QED
    BY <2>1, FS_EmptySet, FS_Singleton
<1>2. S!SetToSeq({}) = <<>>
  <2>1. \A f \in [1 .. 0 -> {}] : f = <<>>
    OBVIOUS
  <2>2. <<>> \in [1 .. 0 -> {}] /\ S!IsInjective(<<>>)
    BY DEF S!IsInjective
  <2> QED
    BY <1>1, <2>1, <2>2 DEF S!SetToSeq
<1>3. ASSUME NEW m PROVE S!SetToSeq({m}) = <<m>>
  <2>1. \A f \in [1 .. 1 -> {m}] : f = <<m>>
    OBVIOUS
  <2>2. <<m>> \in [1 .. 1 -> {m}] /\ S!IsInjective(<<m>>)
    BY DEF S!IsInjective
  <2> QED
    BY <1>1, <2>1, <2>2 DEF S!SetToSeq
<1> QED
  BY <1>2, <1>3

\* What is left of a sequence without its element i.
LEMMA Removed ==
    ASSUME NEW X, NEW s \in Seq(X), NEW i \in 1 .. Len(s)
    PROVE  /\ S!RemoveAt(s, i) \in Seq(X)
           /\ Len(S!RemoveAt(s, i)) = Len(s) - 1
           /\ \A j \in 1 .. Len(s) - 1 :
                 S!RemoveAt(s, i)[j] = IF j < i THEN s[j] ELSE s[j + 1]
<1> DEFINE u == SubSeq(s, 1, i - 1)
           v == SubSeq(s, i + 1, Len(s))
<1>1. /\ u \in Seq(X) /\ Len(u) = i - 1
      /\ \A j \in 1 .. i - 1 : u[j] = s[j]
  OBVIOUS
<1>2. /\ v \in Seq(X) /\ Len(v) = Len(s) - i
      /\ \A j \in 1 .. Len(s) - i : v[j] = s[j + i]
  OBVIOUS
<1>3. S!RemoveAt(s, i) = u \o v
  BY DEF S!RemoveAt
<1> HIDE DEF u, v
<1>4. Len(u \o v) = Len(s) - 1 /\ u \o v \in Seq(X)
  BY <1>1, <1>2
<1>5. ASSUME NEW j \in 1 .. Len(s) - 1
      PROVE  (u \o v)[j] = IF j < i THEN s[j] ELSE s[j + 1]
  <2>1. CASE j < i
    BY <1>1, <1>2, <2>1
  <2>2. CASE ~(j < i)
    <3>1. (u \o v)[j] = v[j - (i - 1)]
      BY <1>1, <1>2, <2>2
    <3>2. v[j - (i - 1)] = s[j - (i - 1) + i] /\ j - (i - 1) + i = j + 1
      BY <1>2, <2>2
    <3> QED
      BY <2>2, <3>1, <3>2
  <2> QED
    BY <2>1, <2>2
<1> QED
  BY <1>3, <1>4, <1>5

\* What a step has posted are the messages of which there are more copies than before.
LEMMA PostedMore ==
    ASSUME IsABag(net), IsABag(net')
    PROVE  Posted = {m \in DOMAIN net' : m \in DOMAIN net => net'[m] > net[m]}
  BY DEF Posted, BagToSet, IsABag, (-)

LEMMA PostedSend ==
    ASSUME IsABag(net), NEW out, Send(out)
    PROVE  Posted = out
<1>1. /\ IsABag(net') /\ DOMAIN net' = DOMAIN net \cup out
      /\ \A m \in DOMAIN net' : net'[m] = (IF m \in DOMAIN net THEN net[m] ELSE 0)
                                          + (IF m \in out THEN 1 ELSE 0)
  BY NetSend
<1>2. \A m \in DOMAIN net : net[m] \in Nat
  BY DEF IsABag
<1>3. Posted = {m \in DOMAIN net' : m \in DOMAIN net => net'[m] > net[m]}
  BY <1>1, PostedMore
<1>4. \A m \in DOMAIN net' : (m \in DOMAIN net => net'[m] > net[m]) <=> m \in out
  BY <1>1, <1>2
<1> QED
  BY <1>1, <1>3, <1>4

LEMMA PostedExchange ==
    ASSUME IsABag(net), NEW in, in \in DOMAIN net, NEW out, in \notin out, Exchange(in, out)
    PROVE  Posted = out
<1> DEFINE D == net (-) SetToBag({in})
<1>1. /\ IsABag(net')
      /\ DOMAIN net' = {m \in DOMAIN net : m # in \/ net[in] > 1} \cup out
      /\ \A m \in DOMAIN net' :
            m # in => net'[m] = (IF m \in DOMAIN net THEN net[m] ELSE 0)
                                + (IF m \in out THEN 1 ELSE 0)
  BY NetExchange
<1>2. \A m \in DOMAIN net : net[m] \in Nat
  BY DEF IsABag
<1>3. in \in DOMAIN net' => ~(net'[in] > net[in])
  <2>1. /\ IsABag(D)
        /\ in \in DOMAIN D => D[in] = net[in] - 1
    BY DEF IsABag, SetToBag, (-)
  <2>2. net' = D (+) SetToBag(out)
    BY DEF Exchange
  <2> HIDE DEF D
  <2>3. in \in DOMAIN net' => in \in DOMAIN D /\ net'[in] = D[in]
    BY <2>1, <2>2 DEF IsABag, SetToBag, (+)
  <2> QED
    BY <1>2, <2>1, <2>3
<1>4. Posted = {m \in DOMAIN net' : m \in DOMAIN net => net'[m] > net[m]}
  BY <1>1, PostedMore
<1>5. \A m \in DOMAIN net' : (m \in DOMAIN net => net'[m] > net[m]) <=> m \in out
  BY <1>1, <1>2, <1>3
<1> QED
  BY <1>1, <1>4, <1>5

LEMMA PostedNothing ==
    ASSUME IsABag(net), net' = net
    PROVE  Posted = {}
<1>1. \A m \in DOMAIN net : net[m] \in Nat
  BY DEF IsABag
<1> QED
  BY <1>1, PostedMore

-----------------------------------------------------------------------------
\* The bus

IsRequest(m) == m.type \in {"busRd", "busRdX"}

\* A message in one of the inboxes of the processors.
Holds(box, m) == \E p \in Proc : \E i \in 1 .. Len(box[p]) : box[p][i] = m

\* Every message is in the inbox of its receiver.
InboxOK(box) ==
    /\ box \in [Proc \cup {MEM} -> Seq(CMsg)]
    /\ \A r \in Proc \cup {MEM} : \A i \in 1 .. Len(box[r]) : box[r][i].receiver = r

\* No processor has two requests to answer.
OneRequest(box) ==
    \A p \in Proc : \A i, j \in 1 .. Len(box[p]) :
        IsRequest(box[p][i]) /\ IsRequest(box[p][j]) => i = j

\* A request as Bus::broadcast queues it, with a copy for everybody.
Whole(p, t, a) == {Request(p, t, a, q) : q \in (Proc \ {p}) \cup {MEM}}

\* What is in a place of the queue: a block or a request.
Packet(ms) ==
    \/ \E m \in CMsg : m.type = "data" /\ ms = {m}
    \/ \E p \in Proc, t \in {"busRd", "busRdX"}, a \in Addr : ms = Whole(p, t, a)

\* Nobody is sent two messages at once.
OneEach(ms) == \A m, n \in ms : m.receiver = n.receiver => m = n

\* The inductive invariant: while a message is on the bus no acknowledgement is
\* awaited, so the request it may be meets nothing of the one before.
BusInv ==
    /\ current = N!NoLink
    /\ InboxOK(inbox) /\ OneRequest(inbox)
    /\ bus = [incomming |-> bus.incomming, delay |-> bus.delay, acks |-> bus.acks]
    /\ bus.incomming \in Seq(SUBSET CMsg)
    /\ \A i \in 1 .. Len(bus.incomming) : Packet(bus.incomming[i])
    /\ bus.delay = 0 \/ (bus.acks = 0 /\ bus.incomming # <<>>)
    /\ IsFiniteSet(Unanswered) /\ BusCountsAcks

LEMMA UnansweredHeld == \A m : m \in Unanswered <=> Holds(inbox, m) /\ IsRequest(m)
  BY DEF Unanswered, Holds, IsRequest

\* Unanswered' of the following state.
LEMMA UnansweredHeldNext == \A m : m \in Unanswered' <=> Holds(inbox', m) /\ IsRequest(m)
  BY DEF Unanswered, Holds, IsRequest

\* Handing over puts at most one message behind the others in an inbox.
LEMMA HandedOne ==
    ASSUME NEW box, InboxOK(box), NEW ms \in SUBSET CMsg, OneEach(ms),
           NEW r \in Proc \cup {MEM}
    PROVE  \/ /\ \A m \in ms : m.receiver # r
              /\ handed(box, ms)[r] = box[r]
           \/ \E m \in ms : /\ m.receiver = r
                            /\ handed(box, ms)[r] = Append(box[r], m)
<1> DEFINE to == {m \in ms : m.receiver = r}
<1>1. box[r] \in Seq(CMsg) /\ handed(box, ms)[r] = box[r] \o S!SetToSeq(to)
  BY DEF InboxOK, handed
<1>2. CASE to = {}
  <2>1. handed(box, ms)[r] = box[r]
    <3>1. S!SetToSeq(to) = <<>>
      BY <1>2, SmallToSeq
    <3>2. box[r] \o <<>> = box[r]
      BY <1>1
    <3> QED
      BY <1>1, <3>1, <3>2
  <2> QED
    BY <1>2, <2>1
<1>3. CASE to # {}
  <2>1. PICK m \in ms : m.receiver = r /\ to = {m}
    BY <1>3 DEF OneEach
  <2>2. handed(box, ms)[r] = box[r] \o <<m>>
    BY <1>1, <2>1, SmallToSeq
  <2>3. box[r] \o <<m>> = Append(box[r], m)
    BY <1>1
  <2> QED
    BY <2>1, <2>2, <2>3
<1> QED
  BY <1>2, <1>3

\* Everything is handed to its receiver.
LEMMA HandedOK ==
    ASSUME NEW box, InboxOK(box), NEW ms \in SUBSET CMsg, OneEach(ms)
    PROVE  InboxOK(handed(box, ms))
<1> DEFINE new == handed(box, ms)
<1>1. ASSUME NEW r \in Proc \cup {MEM}
      PROVE  /\ new[r] \in Seq(CMsg)
             /\ \A i \in 1 .. Len(new[r]) : new[r][i].receiver = r
  <2>1. box[r] \in Seq(CMsg) /\ \A i \in 1 .. Len(box[r]) : box[r][i].receiver = r
    BY DEF InboxOK
  <2>2. CASE new[r] = box[r]
    BY <2>1, <2>2
  <2>3. ASSUME NEW m \in ms, m.receiver = r, new[r] = Append(box[r], m)
        PROVE  /\ new[r] \in Seq(CMsg)
               /\ \A i \in 1 .. Len(new[r]) : new[r][i].receiver = r
    BY <2>1, <2>3
  <2> HIDE DEF new
  <2> QED
    BY <2>2, <2>3, HandedOne DEF new
<1>2. new = [r \in Proc \cup {MEM} |-> new[r]]
  BY DEF handed
<1> QED
  BY <1>1, <1>2 DEF InboxOK

\* The processors hold what they held and what they have been sent.
LEMMA HandedHeld ==
    ASSUME NEW box, InboxOK(box), NEW ms \in SUBSET CMsg, OneEach(ms), NEW m
    PROVE  Holds(handed(box, ms), m) <=>
              Holds(box, m) \/ (m \in ms /\ m.receiver \in Proc)
<1> DEFINE new == handed(box, ms)
           In(b, p) == \E i \in 1 .. Len(b[p]) : b[p][i] = m
<1>1. ASSUME NEW p \in Proc
      PROVE  In(new, p) <=> In(box, p) \/ (m \in ms /\ m.receiver = p)
  <2>1. box[p] \in Seq(CMsg)
    BY DEF InboxOK
  <2>2. CASE (\A n \in ms : n.receiver # p) /\ new[p] = box[p]
    BY <2>2
  <2>3. ASSUME NEW n \in ms, n.receiver = p, new[p] = Append(box[p], n)
        PROVE  In(new, p) <=> In(box, p) \/ (m \in ms /\ m.receiver = p)
    <3>1. m \in ms /\ m.receiver = p <=> m = n
      BY <2>3 DEF OneEach
    <3>2. /\ Len(new[p]) = Len(box[p]) + 1 /\ Len(box[p]) \in Nat
          /\ new[p][Len(box[p]) + 1] = n
          /\ \A i \in 1 .. Len(box[p]) : new[p][i] = box[p][i]
      BY <2>1, <2>3
    <3> HIDE DEF new
    <3>3. In(new, p) <=> In(box, p) \/ m = n
      <4>1. ASSUME NEW i \in 1 .. Len(box[p]), box[p][i] = m PROVE In(new, p)
        <5>1. i \in 1 .. Len(new[p]) /\ new[p][i] = m
          BY <3>2, <4>1
        <5> QED
          BY <5>1
      <4>2. m = n => In(new, p)
        BY <3>2
      <4>3. ASSUME NEW i \in 1 .. Len(new[p]), new[p][i] = m
            PROVE  In(box, p) \/ m = n
        <5>1. i \in 1 .. Len(box[p]) \/ i = Len(box[p]) + 1
          BY <3>2
        <5> QED
          BY <3>2, <4>3, <5>1
      <4> QED
        BY <4>1, <4>2, <4>3
    <3> QED
      BY <3>1, <3>3
  <2> HIDE DEF new, In
  <2> QED
    BY <2>2, <2>3, HandedOne DEF new
<1> QED
  BY <1>1 DEF Holds

\* Handing over what is no request leaves one request at most.
LEMMA HandedNoRequest ==
    ASSUME NEW box, InboxOK(box), OneRequest(box), NEW ms \in SUBSET CMsg, OneEach(ms),
           \A m \in ms : ~IsRequest(m)
    PROVE  OneRequest(handed(box, ms))
<1> DEFINE new == handed(box, ms)
<1>1. ASSUME NEW p \in Proc, NEW i \in 1 .. Len(new[p]), NEW j \in 1 .. Len(new[p]),
             IsRequest(new[p][i]), IsRequest(new[p][j])
      PROVE  i = j
  <2>1. box[p] \in Seq(CMsg)
    BY DEF InboxOK
  <2>2. CASE new[p] = box[p]
    BY <1>1, <2>2 DEF OneRequest
  <2>3. ASSUME NEW n \in ms, new[p] = Append(box[p], n) PROVE i = j
    <3>1. /\ Len(new[p]) = Len(box[p]) + 1 /\ Len(box[p]) \in Nat
          /\ ~IsRequest(new[p][Len(box[p]) + 1])
          /\ \A k \in 1 .. Len(box[p]) : new[p][k] = box[p][k]
      BY <2>1, <2>3
    <3> HIDE DEF new
    <3>2. i # Len(box[p]) + 1 /\ j # Len(box[p]) + 1
      BY <1>1, <3>1
    <3>3. \A L \in Nat : \A k \in 1 .. L + 1 : k # L + 1 => k \in 1 .. L
      OBVIOUS
    <3>4. i \in 1 .. Len(box[p]) + 1 /\ j \in 1 .. Len(box[p]) + 1
      BY <3>1
    <3>5. i \in 1 .. Len(box[p]) /\ j \in 1 .. Len(box[p])
      BY <3>1, <3>2, <3>3, <3>4
    <3> QED
      BY <1>1, <3>1, <3>5 DEF OneRequest
  <2> HIDE DEF new
  <2> QED
    BY <2>2, <2>3, HandedOne DEF new
<1> QED
  BY <1>1 DEF OneRequest

\* Nor does handing over when there is no request to answer.
LEMMA HandedFirst ==
    ASSUME NEW box, InboxOK(box), NEW ms \in SUBSET CMsg, OneEach(ms),
           \A m : Holds(box, m) => ~IsRequest(m)
    PROVE  OneRequest(handed(box, ms))
<1> DEFINE new == handed(box, ms)
<1>1. ASSUME NEW p \in Proc, NEW i \in 1 .. Len(new[p]), NEW j \in 1 .. Len(new[p]),
             IsRequest(new[p][i]), IsRequest(new[p][j])
      PROVE  i = j
  <2>1. /\ box[p] \in Seq(CMsg)
        /\ \A k \in 1 .. Len(box[p]) : ~IsRequest(box[p][k])
    BY DEF InboxOK, Holds
  <2>2. CASE new[p] = box[p]
    BY <1>1, <2>1, <2>2
  <2>3. ASSUME NEW n \in ms, new[p] = Append(box[p], n) PROVE i = j
    <3>1. /\ Len(new[p]) = Len(box[p]) + 1 /\ Len(box[p]) \in Nat
          /\ \A k \in 1 .. Len(box[p]) : new[p][k] = box[p][k]
      BY <2>1, <2>3
    <3>2. i = Len(box[p]) + 1 /\ j = Len(box[p]) + 1
      BY <1>1, <2>1, <3>1
    <3> QED
      BY <3>2
  <2> HIDE DEF new
  <2> QED
    BY <2>2, <2>3, HandedOne DEF new
<1> QED
  BY <1>1 DEF OneRequest

\* A message is taken out of the inbox of p.
LEMMA TakenOut ==
    ASSUME NEW box, InboxOK(box), OneRequest(box), NEW p \in Proc \cup {MEM},
           NEW i \in 1 .. Len(box[p])
    PROVE  LET new == [box EXCEPT ![p] = S!RemoveAt(@, i)]
           IN  /\ InboxOK(new) /\ OneRequest(new)
               /\ \A m : Holds(new, m) => Holds(box, m)
               /\ \A m : Holds(box, m) /\ m # box[p][i] => Holds(new, m)
               /\ p = MEM => \A m : Holds(box, m) => Holds(new, m)
               /\ p \in Proc /\ IsRequest(box[p][i]) => ~Holds(new, box[p][i])
<1> DEFINE new == [box EXCEPT ![p] = S!RemoveAt(@, i)]
           L == Len(box[p])
           back(j) == IF j < i THEN j ELSE j + 1
<1>1. /\ MEM \notin Proc
      /\ \A r \in Proc \cup {MEM} : box[r] \in Seq(CMsg)
      /\ box[p] \in Seq(CMsg) /\ L \in Nat
  BY ProtocolAssumption DEF InboxOK
<1>2. /\ new \in [Proc \cup {MEM} -> Seq(CMsg)]
      /\ \A r \in Proc \cup {MEM} : r # p => new[r] = box[r]
      /\ new[p] = S!RemoveAt(box[p], i)
  <2>1. S!RemoveAt(box[p], i) \in Seq(CMsg)
    BY <1>1, Removed
  <2> QED
    BY <2>1 DEF InboxOK
<1>3. /\ Len(new[p]) = L - 1
      /\ \A j \in 1 .. L - 1 : new[p][j] = box[p][back(j)] /\ back(j) \in 1 .. L /\ back(j) # i
  <2>1. /\ Len(S!RemoveAt(box[p], i)) = L - 1
        /\ \A j \in 1 .. L - 1 :
              S!RemoveAt(box[p], i)[j] = IF j < i THEN box[p][j] ELSE box[p][j + 1]
    BY <1>1, Removed
  <2>2. \A j \in 1 .. L - 1 : back(j) \in 1 .. L /\ back(j) # i
    BY <1>1
  <2> QED
    BY <1>2, <2>1, <2>2
<1>4. \A j, k \in 1 .. L - 1 : back(j) = back(k) => j = k
  BY <1>1
<1>5. \A j \in 1 .. L : j # i => \E k \in 1 .. L - 1 : back(k) = j
  <2> SUFFICES ASSUME NEW j \in 1 .. L, j # i
               PROVE  \E k \in 1 .. L - 1 : back(k) = j
    OBVIOUS
  <2>1. CASE j < i
    <3>1. j \in 1 .. L - 1 /\ back(j) = j
      BY <1>1, <2>1
    <3> QED
      BY <3>1
  <2>2. CASE ~(j < i)
    <3>1. j - 1 \in 1 .. L - 1 /\ back(j - 1) = j
      BY <1>1, <2>2
    <3> QED
      BY <3>1
  <2> QED
    BY <2>1, <2>2
<1> HIDE DEF new, back, L
<1>6. InboxOK(new)
  <2>1. ASSUME NEW r \in Proc \cup {MEM}, NEW j \in 1 .. Len(new[r])
        PROVE  new[r][j].receiver = r
    <3>1. CASE r # p
      BY <1>2, <2>1, <3>1 DEF InboxOK
    <3>2. CASE r = p
      <4>1. new[p][j] = box[p][back(j)] /\ back(j) \in 1 .. L
        BY <1>3, <2>1, <3>2
      <4> QED
        BY <3>2, <4>1 DEF InboxOK, L
    <3> QED
      BY <3>1, <3>2
  <2> QED
    BY <1>2, <2>1 DEF InboxOK
<1>7. OneRequest(new)
  <2>1. ASSUME NEW r \in Proc, NEW j \in 1 .. Len(new[r]), NEW k \in 1 .. Len(new[r]),
               IsRequest(new[r][j]), IsRequest(new[r][k])
        PROVE  j = k
    <3>1. CASE r # p
      BY <1>2, <2>1, <3>1 DEF OneRequest
    <3>2. CASE r = p
      <4>1. /\ new[p][j] = box[p][back(j)] /\ back(j) \in 1 .. L
            /\ new[p][k] = box[p][back(k)] /\ back(k) \in 1 .. L
        BY <1>3, <2>1, <3>2
      <4>2. back(j) = back(k)
        BY <2>1, <3>2, <4>1 DEF OneRequest, L
      <4> QED
        BY <1>3, <1>4, <2>1, <3>2, <4>2
    <3> QED
      BY <3>1, <3>2
  <2> QED
    BY <2>1 DEF OneRequest
<1>8. ASSUME NEW m, Holds(new, m) PROVE Holds(box, m)
  <2>0. PICK r \in Proc : \E j \in 1 .. Len(new[r]) : new[r][j] = m
    BY <1>8 DEF Holds
  <2>1. PICK j \in 1 .. Len(new[r]) : new[r][j] = m
    BY <2>0
  <2>2. CASE r # p
    BY <1>2, <2>1, <2>2 DEF Holds
  <2>3. CASE r = p
    <3>1. box[p][back(j)] = m /\ back(j) \in 1 .. L
      BY <1>3, <2>1, <2>3
    <3> QED
      BY <2>3, <3>1 DEF Holds, L
  <2> QED
    BY <2>2, <2>3
<1>9. ASSUME NEW m, Holds(box, m), m # box[p][i] PROVE Holds(new, m)
  <2>0. PICK r \in Proc : \E j \in 1 .. Len(box[r]) : box[r][j] = m
    BY <1>9 DEF Holds
  <2>1. PICK j \in 1 .. Len(box[r]) : box[r][j] = m
    BY <2>0
  <2>2. CASE r # p
    BY <1>2, <2>1, <2>2 DEF Holds
  <2>3. CASE r = p
    <3>1. j \in 1 .. L /\ j # i
      BY <1>9, <2>1, <2>3 DEF L
    <3>2. PICK k \in 1 .. L - 1 : back(k) = j
      BY <1>5, <3>1
    <3>3. k \in 1 .. Len(new[p]) /\ new[p][k] = m
      BY <1>3, <2>1, <2>3, <3>2
    <3> QED
      BY <2>3, <3>3 DEF Holds
  <2> QED
    BY <2>2, <2>3
<1>10. p = MEM => \A m : Holds(box, m) => Holds(new, m)
  <2>1. p = MEM => \A r \in Proc : new[r] = box[r]
    BY <1>1, <1>2
  <2> QED
    BY <2>1 DEF Holds
<1>11. ASSUME p \in Proc, IsRequest(box[p][i]), Holds(new, box[p][i]) PROVE FALSE
  <2>0. PICK r \in Proc : \E j \in 1 .. Len(new[r]) : new[r][j] = box[p][i]
    BY <1>11 DEF Holds
  <2>1. PICK j \in 1 .. Len(new[r]) : new[r][j] = box[p][i]
    BY <2>0
  <2>2. r = p
    <3>1. new[r][j].receiver = r
      BY <1>6 DEF InboxOK
    <3>2. box[p][i].receiver = p
      BY DEF InboxOK
    <3> QED
      BY <2>1, <3>1, <3>2
  <2>3. box[p][back(j)] = box[p][i] /\ back(j) \in 1 .. L /\ back(j) # i
    BY <1>3, <2>1, <2>2
  <2> QED
    BY <1>11, <2>3 DEF OneRequest, L
<1> QED
  BY <1>6, <1>7, <1>8, <1>9, <1>10, <1>11 DEF new

\* What is queued is sent to everybody once, and acknowledges nothing.
LEMMA PacketOK ==
    ASSUME NEW ms, Packet(ms)
    PROVE  /\ ms \in SUBSET CMsg /\ ms # {} /\ OneEach(ms)
           /\ \A m \in ms : m.type # "ack"
<1>1. CASE \E m \in CMsg : m.type = "data" /\ ms = {m}
  BY <1>1 DEF OneEach
<1>2. ASSUME NEW p \in Proc, NEW t \in {"busRd", "busRdX"}, NEW a \in Addr,
             ms = Whole(p, t, a)
      PROVE  /\ ms \in SUBSET CMsg /\ ms # {} /\ OneEach(ms)
             /\ \A m \in ms : m.type # "ack"
  <2>1. \A q \in (Proc \ {p}) \cup {MEM} :
           /\ Request(p, t, a, q) \in CMsg /\ Request(p, t, a, q).receiver = q
           /\ Request(p, t, a, q).type # "ack"
    BY DEF Request, CMsg
  <2>2. Request(p, t, a, MEM) \in ms
    BY <1>2 DEF Whole
  <2> QED
    BY <1>2, <2>1, <2>2 DEF Whole, OneEach
<1> QED
  BY <1>1, <1>2 DEF Packet

\* Nothing handed over changes nothing.
LEMMA HandedNothing ==
    ASSUME NEW box, InboxOK(box)
    PROVE  handed(box, {}) = box
<1>1. ASSUME NEW r \in Proc \cup {MEM} PROVE handed(box, {})[r] = box[r]
  <2>1. OneEach({})
    BY DEF OneEach
  <2> QED
    BY <2>1, HandedOne
<1>2. handed(box, {}) = [r \in Proc \cup {MEM} |-> handed(box, {})[r]]
  BY DEF handed
<1>3. box = [r \in Proc \cup {MEM} |-> box[r]]
  BY DEF InboxOK
<1> QED
  BY <1>1, <1>2, <1>3

\* A step that answers the message i in the inbox of p, with the acknowledgements
\* and the block in out; the bus counts one down if it was a request.
LEMMA BusAnswers ==
    ASSUME OnBus, BusInv, NEW p \in Proc, NEW i \in 1 .. Len(inbox[p]),
           NEW out \in SUBSET CMsg, Posted = out,
           OneEach({m \in out : m.type = "ack"}),
           {m \in out : m.type # "ack"} = {} \/ Packet({m \in out : m.type # "ack"}),
           IsRequest(inbox[p][i]) <=> \E m \in out : m.type = "ack",
           NEW ps, NEW a, Sends([inbox EXCEPT ![p] = S!RemoveAt(@, i)], ps, a)
    PROVE  BusInv'
<1> DEFINE box == [inbox EXCEPT ![p] = S!RemoveAt(@, i)]
           acks == {m \in out : m.type = "ack"}
           rest == {m \in out : m.type # "ack"}
           in == inbox[p][i]
<1>1. /\ InboxOK(box) /\ OneRequest(box)
      /\ \A m : Holds(box, m) => Holds(inbox, m)
      /\ \A m : Holds(inbox, m) /\ m # in => Holds(box, m)
      /\ IsRequest(in) => ~Holds(box, in)
  BY TakenOut DEF BusInv
<1>2. /\ bus' = [bus EXCEPT !.incomming = IF rest = {} THEN @ ELSE Append(@, rest),
                            !.acks = IF acks = {} THEN @ ELSE minus_one(@)]
      /\ inbox' = handed(box, acks)
      /\ current' = current
  <2>1. out \ {m \in out : m.type = "ack"} = {m \in out : m.type # "ack"}
    OBVIOUS
  <2> QED
    BY <2>1 DEF Sends, on_the_bus
<1>3. /\ bus = [incomming |-> bus.incomming, delay |-> bus.delay, acks |-> bus.acks]
      /\ bus.incomming \in Seq(SUBSET CMsg)
      /\ \A k \in 1 .. Len(bus.incomming) : Packet(bus.incomming[k])
      /\ bus.delay = 0 \/ (bus.acks = 0 /\ bus.incomming # <<>>)
      /\ IsFiniteSet(Unanswered)
      /\ bus.acks = Cardinality(Unanswered)
      /\ \A m, n \in Unanswered : m.sender = n.sender /\ m.addr = n.addr
  BY DEF BusInv, BusCountsAcks
<1>4. /\ bus' = [incomming |-> bus'.incomming, delay |-> bus'.delay, acks |-> bus'.acks]
      /\ bus'.incomming = IF rest = {} THEN bus.incomming ELSE Append(bus.incomming, rest)
      /\ bus'.delay = bus.delay
      /\ bus'.acks = IF acks = {} THEN bus.acks ELSE minus_one(bus.acks)
  <2> HIDE DEF rest, acks
  <2> QED
    BY <1>2, <1>3
<1>5. rest = {} \/ Packet(rest)
  OBVIOUS
<1>6. acks \in SUBSET CMsg /\ OneEach(acks) /\ \A m \in acks : ~IsRequest(m)
  BY DEF IsRequest
<1>7. IsRequest(in) <=> acks # {}
  OBVIOUS
<1>8. Holds(inbox, in)
  BY DEF Holds
<1> HIDE DEF box, acks, rest, in
<1>9. InboxOK(inbox') /\ OneRequest(inbox')
  BY <1>1, <1>2, <1>6, HandedOK, HandedNoRequest
<1>10. /\ bus'.incomming \in Seq(SUBSET CMsg)
       /\ \A k \in 1 .. Len(bus'.incomming) : Packet(bus'.incomming[k])
       /\ bus'.incomming = <<>> => bus.incomming = <<>>
  <2>1. CASE rest = {}
    BY <1>3, <1>4, <2>1
  <2>2. CASE rest # {}
    <3>1. Packet(rest) /\ rest \in SUBSET CMsg
      BY <1>5, <2>2, PacketOK
    <3>2. bus'.incomming = Append(bus.incomming, rest)
      BY <1>4, <2>2
    <3> QED
      BY <1>3, <3>1, <3>2
  <2> QED
    BY <2>1, <2>2
<1>11. \A m : IsRequest(m) => (Holds(inbox', m) <=> Holds(box, m))
  BY <1>1, <1>2, <1>6, HandedHeld
<1>12. Unanswered' = IF IsRequest(in) THEN Unanswered \ {in} ELSE Unanswered
  <2>1. \A m : m \in Unanswered' <=> Holds(box, m) /\ IsRequest(m)
    BY <1>11, UnansweredHeldNext
  <2>2. \A m : Holds(box, m) /\ IsRequest(m) <=> m \in Unanswered /\ (IsRequest(in) => m # in)
    BY <1>1, UnansweredHeld
  <2> QED
    BY <2>1, <2>2
<1>13. /\ IsFiniteSet(Unanswered')
       /\ bus'.acks = Cardinality(Unanswered')
       /\ bus.acks = 0 => bus'.acks = 0
  <2>1. CASE IsRequest(in)
    <3>1. in \in Unanswered
      BY <1>8, <2>1, UnansweredHeld
    <3>2. /\ IsFiniteSet(Unanswered \ {in})
          /\ Cardinality(Unanswered \ {in}) = Cardinality(Unanswered) - 1
      BY <1>3, <3>1, FS_RemoveElement
    <3>3. Cardinality(Unanswered) # 0
      BY <1>3, <3>1, FS_EmptySet
    <3>4. bus'.acks = bus.acks - 1
      BY <1>3, <1>4, <1>7, <2>1, <3>3 DEF minus_one
    <3> QED
      BY <1>3, <1>12, <2>1, <3>2, <3>3, <3>4
  <2>2. CASE ~IsRequest(in)
    BY <1>3, <1>4, <1>7, <1>12, <2>2
  <2> QED
    BY <2>1, <2>2
<1>14. \A m, n \in Unanswered' : m.sender = n.sender /\ m.addr = n.addr
  BY <1>3, <1>12
<1> QED
  BY <1>2, <1>3, <1>4, <1>9, <1>10, <1>13, <1>14 DEF BusInv, BusCountsAcks

\* A step that sends a request or a block leaves the inboxes alone.
LEMMA BusQueues ==
    ASSUME OnBus, BusInv, Posted = {} \/ Packet(Posted), NEW ps, NEW a, Sends(inbox, ps, a)
    PROVE  BusInv'
<1>1. PICK ms : ms = Posted
  OBVIOUS
<1>2. ms = {} \/ Packet(ms)
  BY <1>1
<1>3. {m \in ms : m.type = "ack"} = {} /\ ms \ {} = ms
  BY <1>2, PacketOK
<1>4. /\ bus' = [bus EXCEPT !.incomming = IF ms = {} THEN @ ELSE Append(@, ms),
                            !.acks = @]
      /\ inbox' = handed(inbox, {})
      /\ current' = current
  BY <1>1, <1>3 DEF Sends, on_the_bus
<1>5. /\ bus = [incomming |-> bus.incomming, delay |-> bus.delay, acks |-> bus.acks]
      /\ bus.incomming \in Seq(SUBSET CMsg)
      /\ \A k \in 1 .. Len(bus.incomming) : Packet(bus.incomming[k])
      /\ bus.delay = 0 \/ (bus.acks = 0 /\ bus.incomming # <<>>)
  BY DEF BusInv
<1>6. /\ bus' = [incomming |-> bus'.incomming, delay |-> bus'.delay, acks |-> bus'.acks]
      /\ bus'.incomming = IF ms = {} THEN bus.incomming ELSE Append(bus.incomming, ms)
      /\ bus'.delay = bus.delay
      /\ bus'.acks = bus.acks
  BY <1>4, <1>5
<1>7. inbox' = inbox
  BY <1>4, HandedNothing DEF BusInv
<1>8. /\ bus'.incomming \in Seq(SUBSET CMsg)
      /\ \A k \in 1 .. Len(bus'.incomming) : Packet(bus'.incomming[k])
      /\ bus'.incomming = <<>> => bus.incomming = <<>>
  <2>1. CASE ms = {}
    BY <1>5, <1>6, <2>1
  <2>2. CASE ms # {}
    <3>1. Packet(ms) /\ ms \in SUBSET CMsg
      BY <1>2, <2>2, PacketOK
    <3>2. bus'.incomming = Append(bus.incomming, ms)
      BY <1>6, <2>2
    <3> QED
      BY <1>5, <3>1, <3>2
  <2> QED
    BY <2>1, <2>2
<1>9. Unanswered' = Unanswered
  BY <1>7 DEF Unanswered
<1> QED
  BY <1>4, <1>5, <1>6, <1>7, <1>8, <1>9 DEF BusInv, BusCountsAcks

\* Bus::event delivers a message when nothing is awaited.
LEMMA BusDelivers ==
    ASSUME OnBus, BusInv, BusEvent
    PROVE  BusInv'
<1>1. /\ bus = [incomming |-> bus.incomming, delay |-> bus.delay, acks |-> bus.acks]
      /\ bus.incomming \in Seq(SUBSET CMsg)
      /\ \A k \in 1 .. Len(bus.incomming) : Packet(bus.incomming[k])
      /\ bus.delay = 0 \/ (bus.acks = 0 /\ bus.incomming # <<>>)
      /\ IsFiniteSet(Unanswered)
      /\ bus.acks = Cardinality(Unanswered)
      /\ InboxOK(inbox) /\ OneRequest(inbox)
      /\ current' = current
  BY DEF BusInv, BusCountsAcks, BusEvent
<1>2. CASE UNCHANGED <<bus, inbox>>
  BY <1>1, <1>2 DEF BusInv, BusCountsAcks, Unanswered
<1>3. CASE /\ inbox' = inbox /\ bus.acks = 0 /\ bus.incomming # <<>>
           /\ \E d : bus' = [bus EXCEPT !.delay = d]
  <2>1. /\ bus' = [incomming |-> bus'.incomming, delay |-> bus'.delay, acks |-> bus'.acks]
        /\ bus'.incomming = bus.incomming
        /\ bus'.acks = bus.acks
    BY <1>1, <1>3
  <2>2. Unanswered' = Unanswered
    BY <1>3 DEF Unanswered
  <2> QED
    BY <1>1, <1>3, <2>1, <2>2 DEF BusInv, BusCountsAcks
<1>4. ASSUME bus.delay = 1,
             inbox' = handed(inbox, Head(bus.incomming)),
             bus' = [incomming |-> Tail(bus.incomming), delay |-> 0,
                     acks |-> awaited(Head(bus.incomming))]
      PROVE  BusInv'
  <2>1. PICK h : h = Head(bus.incomming)
    OBVIOUS
  <2>2. /\ bus.acks = 0 /\ bus.incomming # <<>>
        /\ Packet(h)
        /\ Tail(bus.incomming) \in Seq(SUBSET CMsg)
        /\ \A k \in 1 .. Len(Tail(bus.incomming)) : Packet(Tail(bus.incomming)[k])
    <3>1. PICK q \in Seq(SUBSET CMsg) : q = bus.incomming
      BY <1>1
    <3>2. q # <<>> /\ bus.acks = 0 /\ \A k \in 1 .. Len(q) : Packet(q[k])
      BY <1>1, <1>4, <3>1
    <3>3. h = q[1] /\ Len(q) \in Nat /\ Len(q) # 0
      BY <2>1, <3>1, <3>2
    <3>4. /\ Tail(q) \in Seq(SUBSET CMsg) /\ Len(Tail(q)) = Len(q) - 1
          /\ \A k \in 1 .. Len(q) - 1 : Tail(q)[k] = q[k + 1]
      BY <3>2
    <3>5. \A k \in 1 .. Len(q) - 1 : Packet(Tail(q)[k])
      BY <3>2, <3>3, <3>4
    <3> QED
      BY <3>1, <3>2, <3>3, <3>4, <3>5
  <2>3. Unanswered = {}
    BY <1>1, <2>2, FS_EmptySet
  <2>4. \A m : Holds(inbox, m) => ~IsRequest(m)
    BY <2>3, UnansweredHeld
  <2>5. h \in SUBSET CMsg /\ OneEach(h)
    BY <2>2, PacketOK
  <2>6. inbox' = handed(inbox, h)
    BY <1>4, <2>1
  <2>7. InboxOK(inbox') /\ OneRequest(inbox')
    BY <1>1, <2>4, <2>5, <2>6, HandedOK, HandedFirst
  <2>8. \A m : m \in Unanswered' <=> m \in h /\ m.receiver \in Proc /\ IsRequest(m)
    BY <1>1, <2>4, <2>5, <2>6, HandedHeld, UnansweredHeldNext
  <2>9. /\ bus' = [incomming |-> bus'.incomming, delay |-> bus'.delay, acks |-> bus'.acks]
        /\ bus'.incomming = Tail(bus.incomming) /\ bus'.delay = 0
        /\ bus'.acks = awaited(h)
    BY <1>4, <2>1
  <2>10. /\ IsFiniteSet(Unanswered')
         /\ awaited(h) = Cardinality(Unanswered')
         /\ \A m, n \in Unanswered' : m.sender = n.sender /\ m.addr = n.addr
    <3>1. CASE \E m \in CMsg : m.type = "data" /\ h = {m}
      <4>1. \A m \in h : ~IsRequest(m)
        BY <3>1 DEF IsRequest
      <4>2. Unanswered' = {} /\ awaited(h) = 0
        BY <2>2, <2>8, <4>1 DEF awaited, IsRequest
      <4> QED
        BY <4>2, FS_EmptySet
    <3>2. ASSUME NEW p \in Proc, NEW t \in {"busRd", "busRdX"}, NEW a \in Addr,
                 h = Whole(p, t, a)
          PROVE  /\ IsFiniteSet(Unanswered')
                 /\ awaited(h) = Cardinality(Unanswered')
                 /\ \A m, n \in Unanswered' : m.sender = n.sender /\ m.addr = n.addr
      <4> DEFINE Q == Proc \ {p}
                 f == [q \in Q |-> Request(p, t, a, q)]
      <4>1. \A q \in Q \cup {MEM} :
               LET m == Request(p, t, a, q)
               IN  m.receiver = q /\ IsRequest(m) /\ m.sender = p /\ m.addr = a
        BY DEF Request, IsRequest
      <4>2. MEM \notin Proc /\ IsFiniteSet(Proc)
        BY ProtocolAssumption
      <4>3. Unanswered' = {Request(p, t, a, q) : q \in Q}
        BY <2>8, <3>2, <4>1, <4>2 DEF Whole
      <4>4. IsFiniteSet(Q) /\ Cardinality(Q) = nprocs - 1
        BY <4>2, FS_RemoveElement DEF nprocs
      <4>5. f \in Bijection(Q, Unanswered')
        <5>1. f \in [Q -> Unanswered'] /\ \A m \in Unanswered' : \E q \in Q : f[q] = m
          BY <4>3
        <5>2. \A q, r \in Q : f[q] = f[r] => q = r
          BY <4>1
        <5> HIDE DEF f
        <5> QED
          BY <5>1, <5>2 DEF Bijection, Injection, Surjection, IsInjective
      <4>6. IsFiniteSet(Unanswered') /\ Cardinality(Unanswered') = nprocs - 1
        BY <4>4, <4>5, FS_Bijection DEF ExistsBijection
      <4>7. awaited(h) = nprocs - 1
        <5>1. Request(p, t, a, MEM) \in h
          BY <3>2 DEF Whole
        <5> QED
          BY <4>1, <5>1 DEF awaited, IsRequest
      <4> QED
        BY <4>1, <4>3, <4>6, <4>7
    <3> QED
      BY <2>2, <3>1, <3>2 DEF Packet
  <2> QED
    BY <1>1, <2>2, <2>7, <2>9, <2>10 DEF BusInv, BusCountsAcks
<1> QED
  <2>1. \/ UNCHANGED <<bus, inbox>>
        \/ /\ inbox' = inbox /\ bus.acks = 0 /\ bus.incomming # <<>>
           /\ \E d : bus' = [bus EXCEPT !.delay = d]
        \/ /\ bus.delay = 1
           /\ inbox' = handed(inbox, Head(bus.incomming))
           /\ bus' = [incomming |-> Tail(bus.incomming), delay |-> 0,
                      acks |-> awaited(Head(bus.incomming))]
    BY <1>1 DEF BusEvent
  <2> QED
    BY <1>2, <1>3, <1>4, <2>1

\* A set of numbers that is not empty has a least one.
LEMMA LeastIndex ==
    ASSUME NEW I \in SUBSET Nat, I # {}
    PROVE  \E i \in I : \A j \in I : i <= j
<1> DEFINE R == StrictSubsetOrdering(Nat)
           F == FiniteSubsetsOf(Nat)
           T == {0 .. n : n \in I}
<1>1. IsWellFoundedOn(R, F)
  BY FS_StrictSubsetOrderingWellFounded
<1>2. \A n \in Nat : 0 .. n \in F
  <2>1. \A n \in Nat : IsFiniteSet(0 .. n) /\ 0 .. n \subseteq Nat
    BY FS_Interval
  <2> QED
    BY <2>1 DEF FiniteSubsetsOf
<1>3. T # {} /\ T \subseteq F
  BY <1>2
<1> HIDE DEF R, F
<1>4. PICK t \in T : \A u \in T : ~(<<u, t>> \in R)
  BY <1>1, <1>3, WFMin
<1>5. PICK i \in I : t = 0 .. i
  OBVIOUS
<1>6. ASSUME NEW j \in I, j < i PROVE FALSE
  <2>1. /\ 0 .. j \subseteq 0 .. i /\ 0 .. j \subseteq Nat /\ 0 .. i \subseteq Nat
        /\ i \in 0 .. i /\ i \notin 0 .. j
    BY <1>6
  <2>2. <<0 .. j, 0 .. i>> \in R
    BY <2>1 DEF R, StrictSubsetOrdering
  <2> QED
    BY <1>4, <1>5, <2>2
<1> QED
  BY <1>6

\* A request goes out whole, or waits to be issued again.
LEMMA IssuePosts ==
    ASSUME OnBus, IsABag(net), NEW p \in Proc, NEW t \in {"busRd", "busRdX"},
           NEW a \in Addr, Issue(p, t, a)
    PROVE  Posted = {} \/ Packet(Posted)
<1>1. CASE net' = net
  BY <1>1, PostedNothing
<1>2. CASE Send(broadcast(p, t, a))
  <2>1. broadcast(p, t, a) = Whole(p, t, a)
    BY DEF broadcast, Whole, Receivers, Broadcasting, UsesDirectory, OnBus
  <2> QED
    BY <1>2, <2>1, PostedSend DEF Packet
<1> QED
  BY <1>1, <1>2 DEF Issue

\* A cache sends a request for its miss, or nothing.
LEMMA CacheKeepsBus ==
    ASSUME OnBus, BusInv, TypeOK, NEW p \in Proc, CacheIssues(p)
    PROVE  BusInv'
<1>1. IsABag(net)
  BY DEF TypeOK
<1>2. PICK a \in Addr :
         /\ \/ ReadHit(p, a) \/ ReadMiss(p, a)
            \/ WriteHit(p, a) \/ WriteUpgrade(p, a) \/ WriteMiss(p, a)
         /\ Sends(inbox, {p}, a)
  BY DEF CacheIssues
<1>3. \/ net' = net
      \/ \E t \in {"busRd", "busRdX"} : Issue(p, t, a)
  BY <1>2 DEF ReadHit, ReadMiss, WriteHit, WriteUpgrade, WriteMiss, StartHit, Miss
<1>4. Posted = {} \/ Packet(Posted)
  BY <1>1, <1>3, PostedNothing, IssuePosts
<1> QED
  BY <1>2, <1>4, BusQueues

\* What receiving m does to the messages on their way.
LEMMA RecvExchanges ==
    ASSUME NEW p \in Proc, NEW m, Recv(p, m)
    PROVE  /\ m \in DOMAIN net
           /\ IsRequest(m) => \E flags \in FlagWord : Exchange(m, Answer(p, m, flags))
           /\ ~IsRequest(m) => Exchange(m, {})
<1>1. CASE RecvBusRd(p, m)
  <2>1. Receive(p, m, {"busRd"})
    BY <1>1 DEF RecvBusRd
  <2>2. \E flags \in FlagWord : Exchange(m, Answer(p, m, flags))
    BY <1>1, FlagsTyped DEF RecvBusRd
  <2> QED
    BY <2>1, <2>2 DEF Receive, BagIn, BagToSet, IsRequest
<1>2. CASE RecvBusRdX(p, m)
  <2>1. Receive(p, m, {"busRdX"})
    BY <1>2 DEF RecvBusRdX
  <2>2. \E flags \in FlagWord : Exchange(m, Answer(p, m, flags))
    BY <1>2, FlagsTyped DEF RecvBusRdX
  <2> QED
    BY <2>1, <2>2 DEF Receive, BagIn, BagToSet, IsRequest
<1>3. CASE RecvAck(p, m)
  BY <1>3 DEF RecvAck, Receive, BagIn, BagToSet, IsRequest
<1>4. CASE RecvData(p, m)
  BY <1>4 DEF RecvData, Receive, BagIn, BagToSet, IsRequest
<1> QED
  BY <1>1, <1>2, <1>3, <1>4 DEF Recv

\* A manager answers a request with one acknowledgement, and other messages with
\* nothing.
LEMMA ReceiveKeepsBus ==
    ASSUME OnBus, BusInv, TypeOK, NEW p \in Proc, ManagerReceives(p)
    PROVE  BusInv'
<1> DEFINE i == CHOOSE i \in Answerable(p) : \A j \in Answerable(p) : i <= j
           m == inbox[p][i]
<1>1. i \in 1 .. Len(inbox[p])
  <2>1. Answerable(p) \in SUBSET Nat /\ Answerable(p) # {}
    <3>1. inbox[p] \in Seq(CMsg)
      BY DEF BusInv, InboxOK
    <3>2. Len(inbox[p]) \in Nat
      BY <3>1
    <3>3. Answerable(p) \subseteq 1 .. Len(inbox[p])
      BY DEF Answerable
    <3>4. Answerable(p) # {}
      BY DEF ManagerReceives
    <3> QED
      BY <3>2, <3>3, <3>4
  <2>2. i \in Answerable(p)
    BY <2>1, LeastIndex
  <2> QED
    BY <2>2 DEF Answerable
<1>2. Recv(p, m)
  BY DEF ManagerReceives
<1>6. \E ps : Sends([inbox EXCEPT ![p] = S!RemoveAt(@, i)], ps, m.addr)
  BY DEF ManagerReceives
<1> HIDE DEF i, m
<1>3. /\ IsABag(net) /\ m \in DOMAIN net /\ m \in CMsg
  <2>1. m \in DOMAIN net
    BY <1>2, RecvExchanges
  <2> QED
    BY <2>1 DEF TypeOK, BagToSet
<1>4. CASE IsRequest(m)
  <2>1. /\ m.sender \in Proc /\ m.type \in {"busRd", "busRdX"}
    BY <1>3, <1>4 DEF CMsg, IsRequest
  <2>2. PICK flags \in FlagWord : Exchange(m, Answer(p, m, flags))
    BY <1>2, <1>4, RecvExchanges
  <2>3. PICK out : out = Answer(p, m, flags)
    OBVIOUS
  <2>4. out \in SUBSET CMsg
    BY <1>3, <2>1, <2>3, AnswerTyped
  <2>5. /\ \E f : {x \in out : x.type = "ack"} =
                  {[type |-> "ack", sender |-> p, receiver |-> q, addr |-> m.addr, flags |-> f]
                   : q \in {m.sender, MEM}}
        /\ {x \in out : x.type # "ack"} \in {{}, {Data(p, m.sender, m.addr)}}
    <3> DEFINE sup == BoolWord(Found(p, m.addr)) \cap BoolWord(line[p][m.addr].most_recent)
               f == flags \cup (sup \cap FLAG_TRANSMIT)
    <3>1. send_ack(p, m, f) =
             {[type |-> "ack", sender |-> p, receiver |-> q, addr |-> m.addr, flags |-> f]
              : q \in {m.sender, MEM}}
      BY DEF send_ack, UsesDirectory, OnBus
    <3>2. Data(p, m.sender, m.addr).type = "data"
      BY DEF Data
    <3>3. out = send_ack(p, m, f)
                \cup (IF sup # {} THEN {Data(p, m.sender, m.addr)} ELSE {})
      BY <2>3 DEF Answer
    <3> HIDE DEF f, sup
    <3>4. {x \in out : x.type = "ack"} = send_ack(p, m, f)
      BY <3>1, <3>2, <3>3
    <3>5. {x \in out : x.type # "ack"} = IF sup # {} THEN {Data(p, m.sender, m.addr)} ELSE {}
      BY <3>1, <3>2, <3>3
    <3> QED
      BY <3>1, <3>4, <3>5
  <2>6. /\ OneEach({x \in out : x.type = "ack"})
        /\ \E x \in out : x.type = "ack"
    <3>1. PICK f : {x \in out : x.type = "ack"} =
                  {[type |-> "ack", sender |-> p, receiver |-> q, addr |-> m.addr, flags |-> f]
                   : q \in {m.sender, MEM}}
      BY <2>5
    <3>2. PICK acks : acks = {x \in out : x.type = "ack"}
      OBVIOUS
    <3>3. \A x, y \in acks : x.receiver = y.receiver => x = y
      BY <3>1, <3>2
    <3>4. [type |-> "ack", sender |-> p, receiver |-> MEM, addr |-> m.addr, flags |-> f] \in acks
      BY <3>1, <3>2
    <3> QED
      BY <3>2, <3>3, <3>4 DEF OneEach
  <2>7. \/ {x \in out : x.type # "ack"} = {}
        \/ Packet({x \in out : x.type # "ack"})
    <3>1. Data(p, m.sender, m.addr).type = "data"
      BY DEF Data
    <3>2. Data(p, m.sender, m.addr) \in {x \in out : x.type # "ack"}
             => Data(p, m.sender, m.addr) \in CMsg
      BY <2>4
    <3> QED
      BY <2>5, <3>1, <3>2 DEF Packet
  <2>8. m \notin out
    <3>1. \A x \in out : x.type = "ack" \/ x.type = "data"
      <4>1. \A x \in out : x.type # "ack" => x = Data(p, m.sender, m.addr)
        BY <2>5
      <4> QED
        BY <4>1 DEF Data
    <3> QED
      BY <2>1, <3>1
  <2>9. Posted = out
    BY <1>3, <2>2, <2>3, <2>8, PostedExchange
  <2> QED
    BY <1>1, <1>4, <1>6, <2>4, <2>6, <2>7, <2>9, BusAnswers DEF m
<1>5. CASE ~IsRequest(m)
  <2>1. Exchange(m, {})
    BY <1>2, <1>5, RecvExchanges
  <2>2. Posted = {}
    BY <1>3, <2>1, PostedExchange
  <2>3. /\ {x \in {} : x.type = "ack"} = {} /\ {x \in {} : x.type # "ack"} = {}
        /\ OneEach({}) /\ {} \in SUBSET CMsg
    BY DEF OneEach
  <2> QED
    BY <1>1, <1>5, <1>6, <2>2, <2>3, BusAnswers DEF m
<1> QED
  BY <1>4, <1>5

\* A manager that ends its event may issue its request again.
LEMMA EndKeepsBus ==
    ASSUME OnBus, BusInv, IInv, NEW p \in Proc, ManagerEnds(p)
    PROVE  BusInv'
<1>1. IsABag(net)
  BY DEF IInv, TypeOK
<1>2. CASE UNCHANGED <<inbox, current, bus>>
  BY <1>2, SMTT(60) DEF BusInv, BusCountsAcks, Unanswered
<1>3. ASSUME HandlePendingRequest(p), NEW ps, NEW a, Sends(inbox, ps, a)
      PROVE  BusInv'
  <2>1. \/ net' = net
        \/ \E t \in {"busRd", "busRdX"}, b \in Addr : Issue(p, t, b)
    <3>1. CASE Reissue(p)
      <4>1. pending_request[p].type \in {"busRd", "busRdX"} /\ pending_request[p].addr \in Addr
        BY <3>1 DEF Reissue, MustReissue, IInv, AssertsHold, TypeOK, PendingRequest
      <4> QED
        BY <3>1, <4>1 DEF Reissue
    <3> QED
      BY <1>3, <3>1 DEF HandlePendingRequest, CompleteRead, CompleteWrite, NothingToDo
  <2>2. Posted = {} \/ Packet(Posted)
    BY <1>1, <2>1, PostedNothing, IssuePosts
  <2> QED
    BY <1>3, <2>2, BusQueues
<1> QED
  BY <1>2, <1>3 DEF ManagerEnds, machineVars

\* The memory sends a block, and empties its inbox.
LEMMA MemoryKeepsBus ==
    ASSUME OnBus, BusInv, TypeOK, MemoryAnswers \/ MemoryReceives
    PROVE  BusInv'
<1>1. CASE MemoryAnswers
  <2>1. PICK a \in Addr : MemAnswer(a) /\ Sends(inbox, {}, a)
    BY <1>1 DEF MemoryAnswers, Due
  <2>2. Posted = {Data(MEM, memory[a], a)}
    BY <2>1, PostedSend DEF MemAnswer, TypeOK
  <2>3. Data(MEM, memory[a], a) \in CMsg /\ Data(MEM, memory[a], a).type = "data"
    <3>1. memory[a] \in Proc
      BY <2>1 DEF MemAnswer, TypeOK
    <3> QED
      BY <3>1, FlagsTyped DEF Data, CMsg
  <2> QED
    BY <2>1, <2>2, <2>3, BusQueues DEF Packet
<1>2. CASE MemoryReceives
  <2>1. /\ inbox[MEM] \in Seq(CMsg) /\ inbox[MEM] # <<>>
        /\ inbox' = [inbox EXCEPT ![MEM] = Tail(@)]
        /\ current' = current /\ bus' = bus
    BY <1>2 DEF MemoryReceives, BusInv, InboxOK
  <2>2. 1 \in 1 .. Len(inbox[MEM])
    BY <2>1
  <2>3. S!RemoveAt(inbox[MEM], 1) = Tail(inbox[MEM])
    <3>1. PICK s \in Seq(CMsg) : s = inbox[MEM]
      BY <2>1
    <3>2. SubSeq(s, 1, 1 - 1) = <<>>
      BY <3>1
    <3>3. SubSeq(s, 1 + 1, Len(s)) = Tail(s)
      BY <2>1, <3>1
    <3>4. <<>> \o Tail(s) = Tail(s)
      BY <2>1, <3>1
    <3> QED
      BY <3>1, <3>2, <3>3, <3>4 DEF S!RemoveAt
  <2>4. inbox' = [inbox EXCEPT ![MEM] = S!RemoveAt(@, 1)]
    BY <2>1, <2>3
  <2>5. /\ InboxOK(inbox') /\ OneRequest(inbox')
        /\ \A m : Holds(inbox', m) <=> Holds(inbox, m)
    BY <2>2, <2>4, TakenOut DEF BusInv
  <2>6. Unanswered' = Unanswered
    BY <2>5, UnansweredHeld, UnansweredHeldNext
  <2> QED
    BY <2>1, <2>5, <2>6 DEF BusInv, BusCountsAcks
<1> QED
  BY <1>1, <1>2

LEMMA BusInit == OnBus /\ SimInit => BusInv
<1> SUFFICES ASSUME OnBus, SimInit PROVE BusInv
  OBVIOUS
<1>1. InboxOK(inbox) /\ OneRequest(inbox)
  BY DEF SimInit, InboxOK, OneRequest
<1>2. Unanswered = {}
  BY DEF SimInit, Unanswered
<1>3. /\ bus.incomming = <<>> /\ bus.delay = 0 /\ bus.acks = 0
      /\ bus = [incomming |-> bus.incomming, delay |-> bus.delay, acks |-> bus.acks]
      /\ current = N!NoLink
  BY DEF SimInit
<1> QED
  BY <1>1, <1>2, <1>3, FS_EmptySet DEF BusInv, BusCountsAcks

LEMMA BusStep == OnBus /\ IInv /\ BusInv /\ [SimNext]_simVars => BusInv'
<1> SUFFICES ASSUME OnBus, IInv, BusInv, [SimNext]_simVars PROVE BusInv'
  OBVIOUS
<1>0. TypeOK
  BY DEF IInv
<1>1. CASE UNCHANGED <<inbox, current, bus>>
  BY <1>1, SMTT(60) DEF BusInv, BusCountsAcks, Unanswered
<1>2. ASSUME NEW p \in Proc, CacheWaits(p) \/ CacheIdles(p) PROVE BusInv'
  BY <1>1, <1>2 DEF CacheWaits, CacheIdles
<1>3. ASSUME NEW p \in Proc,
             CacheIssues(p) \/ ManagerReceives(p) \/ ManagerEnds(p)
      PROVE  BusInv'
  BY <1>0, <1>3, CacheKeepsBus, ReceiveKeepsBus, EndKeepsBus
<1>4. CASE BusEvent
  BY <1>4, BusDelivers
<1>5. CASE NetworkBegins \/ NetworkEvent
  BY <1>5 DEF NetworkBegins, NetworkEvent, BusInv
<1>6. CASE MemoryAnswers \/ MemoryReceives
  BY <1>0, <1>6, MemoryKeepsBus
<1>7. CASE MemoryTicks \/ CycleEnds
  BY <1>1, <1>7 DEF MemoryTicks, CycleEnds, machineVars
<1>8. CASE UNCHANGED simVars
  BY <1>1, <1>8 DEF simVars, machineVars
<1> QED
  BY <1>2, <1>3, <1>4, <1>5, <1>6, <1>7, <1>8 DEF SimNext

\* The bus's counter is exact in every simulation, for any number of processors and
\* any delays: a request is handed over only when the one before has been answered by
\* everybody, and every processor that has it answers once.
THEOREM BusAcksCorrect == SimSpec => []BusCountsAcks
<1>1. SimSpec => []IInv
  BY SimulatorImplementsProtocol, InvariantCorrect, PTL
<1>2. CASE OnBus
  <2>1. SimInit => BusInv
    BY <1>2, BusInit
  <2>2. IInv /\ BusInv /\ [SimNext]_simVars => BusInv'
    BY <1>2, BusStep
  <2>3. BusInv => BusCountsAcks
    BY DEF BusInv
  <2> QED
    BY <1>1, <2>1, <2>2, <2>3, PTL DEF SimSpec
<1>3. CASE ~OnBus
  <2>1. BusCountsAcks
    BY <1>3 DEF BusCountsAcks
  <2> QED
    BY <2>1, PTL
<1> QED
  BY <1>2, <1>3

=============================================================================
