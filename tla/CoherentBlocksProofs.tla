------------------------ MODULE CoherentBlocksProofs ------------------------
(***************************************************************************)
(* The protocol implements CoherentBlocks, for any processors, blocks,     *)
(* cache and table sizes, with and without --mig, on every interconnect:   *)
(* each of its steps is one of CoherentBlocks or changes nothing there.    *)
(***************************************************************************)
EXTENDS CoherentRefinement, CoherenceProofs

SameBlocks == rights' = rights /\ wants' = wants

\* The rights only depend on the lines' states and on whether they are valid.
LEMMA RightsUnchanged ==
    ASSUME UNCHANGED line PROVE rights' = rights
  BY DEF rights

LEMMA WantsUnchanged ==
    ASSUME \A p \in Proc : /\ pending_request'[p].type = pending_request[p].type
                           /\ pending_request'[p].addr = pending_request[p].addr
    PROVE  wants' = wants
  BY DEF wants, WantOf

\* A step that asks for nothing and changes no right is a stutter.
LEMMA Stutter ==
    ASSUME SameBlocks PROVE UNCHANGED Blocks!vars
  BY DEF SameBlocks, Blocks!vars

\* A cache that misses asks for what it does not have.
LEMMA MissAsks ==
    ASSUME IInv, NEW p \in Proc, NEW a \in Addr, ReadMiss(p, a) \/ WriteMiss(p, a)
    PROVE  \E kind \in {"read", "write"} : Blocks!AskFor(p, kind, a)
  <1> DEFINE t == IF ReadMiss(p, a) THEN "busRd" ELSE "busRdX"
             kind == IF t = "busRd" THEN "read" ELSE "write"
  <1>0. TypeOK /\ AssertsHold
    BY DEF IInv
  <1>1. /\ CacheTurn(p) /\ Issue(p, t, a) /\ UNCHANGED line
        /\ t \in {"busRd", "busRdX"}
    BY DEF ReadMiss, WriteMiss, TakeMemop, Miss
  <1>2. pending_request[p].type = "none" /\ wants[p] = Blocks!NoAsk
    BY <1>0, <1>1 DEF CacheTurn, AssertsHold, wants, WantOf, Blocks!NoAsk
  <1>3. rights[p][a] \in (IF kind = "read" THEN {"none"} ELSE {"none", "read"})
    <2>1. CASE ReadMiss(p, a)
      BY <1>0, <2>1 DEF ReadMiss, Found, can_read, AssertsHold, rights, RightOf
    <2>2. CASE ~ReadMiss(p, a)
      BY <1>0, <2>2
         DEF WriteMiss, Found, can_write, rw_upgrade, AssertsHold, rights, RightOf
    <2>3. QED
      BY <2>1, <2>2
  <1>4. /\ pending_request'[p].type = t /\ pending_request'[p].addr = a
        /\ \A q \in Proc : q # p => pending_request'[q] = pending_request[q]
    BY <1>0, <1>1, IssueEffect DEF NewRequest
  <1>5. wants' = [wants EXCEPT ![p] = [kind |-> kind, addr |-> a]]
    BY <1>1, <1>4 DEF wants, WantOf
  <1>6. rights' = rights
    BY <1>1, RightsUnchanged
  <1>7. Blocks!AskFor(p, kind, a)
    BY <1>2, <1>3, <1>5, <1>6 DEF Blocks!AskFor
  <1>8. QED
    BY <1>7

\* The other steps of a cache leave its rights as they are: the silent upgrade
\* of an exclusive line is a right it already had.
LEMMA HitStutters ==
    ASSUME IInv, NEW p \in Proc, NEW a \in Addr,
           ReadHit(p, a) \/ WriteHit(p, a) \/ WriteUpgrade(p, a)
    PROVE  SameBlocks
  <1>0. TypeOK
    BY DEF IInv
  <1>1. wants' = wants
    BY DEF ReadHit, WriteHit, WriteUpgrade, StartHit, requestVars, wants
  <1>2. CASE ReadHit(p, a) \/ WriteHit(p, a)
    BY <1>1, <1>2, RightsUnchanged DEF ReadHit, WriteHit, SameBlocks
  <1>3. CASE WriteUpgrade(p, a)
    <2>1. /\ \A q \in Proc, b \in Addr :
                q # p \/ b # a => line'[q][b] = line[q][b]
          /\ line'[p][a].state = rw_upgrade_state(line[p][a].state)
          /\ line'[p][a].valid = line[p][a].valid
      BY <1>0, <1>3 DEF WriteUpgrade, TypeOK, Line
    <2>2. rw_upgrade(line[p][a].state)
      BY <1>3 DEF WriteUpgrade
    <2>3. RightOf(line'[p][a]) = RightOf(line[p][a])
      BY <2>1, <2>2 DEF rw_upgrade, rw_upgrade_state, RightOf
    <2>4. \A q \in Proc, b \in Addr : RightOf(line'[q][b]) = RightOf(line[q][b])
      BY <2>1, <2>3
    <2>5. QED
      BY <1>1, <2>4 DEF SameBlocks, rights
  <1>4. QED
    BY <1>2, <1>3

\* A request is received: the receiver yields what it has to the processor that
\* sent it, which is still asking for the block.
LEMMA AnswerYields ==
    ASSUME IInv, NEW p \in Proc, NEW m \in BagToSet(net),
           RecvBusRd(p, m) \/ RecvBusRdX(p, m)
    PROVE  \/ SameBlocks
           \/ \E a \in Addr : Blocks!YieldToReader(p, a) \/ Blocks!YieldToWriter(p, a)
  <1> DEFINE a == m.addr
             q == m.sender
  <1>0. /\ TypeOK /\ TrafficShape /\ AcksExact /\ AssertsHold
    BY DEF IInv
  <1>1. /\ m \in Traffic /\ m.type \in {"busRd", "busRdX"} /\ m.receiver = p
        /\ UNCHANGED pending_request
    BY ProtocolAssumption
       DEF RecvBusRd, RecvBusRdX, Receive, Traffic, requestVars
  <1>2. q \in Proc \ {p} /\ a \in Addr /\ pending_request[q].addr = a
    BY <1>0, <1>1, RequestKnown
  <1>3. pending_request[q].type = m.type
    BY <1>0, <1>1, ProtocolAssumption DEF TrafficShape
  <1>4. wants' = wants
    BY <1>1 DEF wants
  <1>5. CASE ~Found(p, a)
    BY <1>4, <1>5, RightsUnchanged DEF RecvBusRd, RecvBusRdX, SameBlocks
  <1>6. CASE Found(p, a) /\ RecvBusRd(p, m)
    <2> DEFINE s == line[p][a].state
               new == [valid |-> s # "MIGRATORY_DIRTY", state |-> busRd_state(s),
                       most_recent |-> FALSE]
    <2>1. line' = [line EXCEPT ![p][a] = new]
      BY <1>6 DEF RecvBusRd
    <2>2. rights' = [rights EXCEPT ![p][a] = RightOf(new)]
      BY <1>0, <1>2, <2>1 DEF rights, TypeOK
    <2>3. m.type = "busRd"
      BY <1>6 DEF RecvBusRd, Receive
    <2>4. Blocks!Wants(q, "read", a)
      BY <1>2, <1>3, <2>3 DEF Blocks!Wants, wants, WantOf
    <2>5. /\ RightOf(new) \in {"none", "read"}
          /\ RightOf(line[p][a]) = "read" => RightOf(new) = "read"
          /\ RightOf(line[p][a]) # "none"
      BY <1>6 DEF RightOf, busRd_state, Found
    <2>6. rights[p][a] = RightOf(line[p][a])
      BY <1>2 DEF rights
    <2>7. CASE rights[p][a] = "write"
      BY <1>2, <1>4, <2>2, <2>4, <2>5, <2>7 DEF Blocks!YieldToReader
    <2>8. CASE rights[p][a] # "write"
      <3>1. rights[p][a] = RightOf(new)
        BY <2>5, <2>6, <2>8 DEF RightOf
      <3>2. rights = [rights EXCEPT ![p][a] = rights[p][a]]
        BY <1>2 DEF rights
      <3>3. QED
        BY <1>4, <2>2, <3>1, <3>2 DEF SameBlocks
    <2>9. QED
      BY <2>7, <2>8
  <1>7. CASE Found(p, a) /\ RecvBusRdX(p, m)
    <2>1. line' = [line EXCEPT ![p][a] = NoLine]
      BY <1>7 DEF RecvBusRdX
    <2>2. rights' = [rights EXCEPT ![p][a] = "none"]
      BY <1>0, <1>2, <2>1 DEF rights, TypeOK, RightOf, NoLine
    <2>3. m.type = "busRdX"
      BY <1>7 DEF RecvBusRdX, Receive
    <2>4. Blocks!Wants(q, "write", a)
      BY <1>2, <1>3, <2>3 DEF Blocks!Wants, wants, WantOf
    <2>5. rights[p][a] # "none"
      BY <1>2, <1>7 DEF rights, RightOf, Found
    <2>6. QED
      BY <1>2, <1>4, <2>2, <2>4, <2>5 DEF Blocks!YieldToWriter
  <1>8. QED
    BY <1>5, <1>6, <1>7

\* Only the request's type and block matter to what a processor asks for.
LEMMA ReceiptStutters ==
    ASSUME IInv, NEW p \in Proc, NEW m \in BagToSet(net),
           RecvAck(p, m) \/ RecvData(p, m)
    PROVE  SameBlocks
  <1>1. \A q \in Proc : /\ pending_request'[q].type = pending_request[q].type
                        /\ pending_request'[q].addr = pending_request[q].addr
    BY RecvAckEffect, RecvDataEffect DEF IInv
  <1>2. UNCHANGED line
    BY DEF RecvAck, RecvData
  <1>3. QED
    BY <1>1, <1>2, RightsUnchanged, WantsUnchanged DEF SameBlocks

\* A request that is issued again asks for the same.
LEMMA ReissueStutters ==
    ASSUME IInv, NEW p \in Proc, Reissue(p)
    PROVE  SameBlocks
  <1> DEFINE t == pending_request[p].type
             a == pending_request[p].addr
  <1>1. TypeOK /\ t # "none"
    BY DEF IInv, AssertsHold, Reissue, MustReissue
  <1>2. t \in {"busRd", "busRdX"} /\ a \in Addr
    BY <1>1 DEF TypeOK, PendingRequest
  <1>3. Issue(p, t, a) /\ UNCHANGED line
    BY DEF Reissue
  <1>4. /\ pending_request'[p].type = t /\ pending_request'[p].addr = a
        /\ \A q \in Proc : q # p => pending_request'[q] = pending_request[q]
    BY <1>1, <1>2, <1>3, IssueEffect DEF NewRequest
  <1>5. \A q \in Proc : /\ pending_request'[q].type = pending_request[q].type
                        /\ pending_request'[q].addr = pending_request[q].addr
    BY <1>4
  <1>6. QED
    BY <1>3, <1>5, RightsUnchanged, WantsUnchanged DEF SameBlocks

\* A completed request grants what was asked for.  That the right conflicts
\* with no other is SingleWriter of the state after it.
LEMMA CompletionGrants ==
    ASSUME IInv, IInv', NEW p \in Proc, CompleteRead(p) \/ CompleteWrite(p)
    PROVE  Blocks!Grant(p)
  <1> DEFINE req == pending_request[p]
             a == req.addr
             own == IF Found(p, a) THEN line[p][a].state ELSE "INVALID"
             s == IF CompleteRead(p) THEN read_state(req.shared, req.migratory)
                                     ELSE write_state(own, req.migratory)
             r == IF s \in {"EXCLUSIVE", "DIRTY", "MIGRATORY_CLEAN", "MIGRATORY_DIRTY"}
                  THEN "write" ELSE "read"
             l == [valid |-> TRUE, state |-> s, most_recent |-> TRUE]
  <1>0. TypeOK /\ SingleWriter' /\ LinesNormal /\ LinesNormal'
    BY DEF IInv
  <1>1. /\ complete(p, a, s) /\ Retire(p)
        /\ req.type = (IF CompleteRead(p) THEN "busRd" ELSE "busRdX")
    BY DEF CompleteRead, CompleteWrite
  <1>2. a \in Addr
    BY <1>0, <1>1 DEF TypeOK, PendingRequest
  <1>3. PICK v \in victims(p, a) :
           line' = [line EXCEPT ![p] = [b \in Addr |-> IF b = a THEN l
                                                       ELSE IF b = v THEN NoLine
                                                       ELSE line[p][b]]]
    BY <1>1 DEF complete
  <1>4. v \in Addr
    BY <1>2, <1>3 DEF victims, set_of
  <1>5. /\ line'[p] = [b \in Addr |-> IF b = a THEN l
                                      ELSE IF b = v THEN NoLine ELSE line[p][b]]
        /\ \A q \in Proc : q # p => line'[q] = line[q]
    BY <1>0, <1>3 DEF TypeOK
  <1> HIDE DEF s
  <1>6. RightOf(l) = r /\ RightOf(NoLine) = "none"
    BY DEF RightOf, NoLine
  <1>7. rights' = [rights EXCEPT ![p] =
           [b \in Addr |-> IF b = a THEN r ELSE IF b = v THEN "none" ELSE @[b]]]
    <2>1. /\ rights'[p] = [b \in Addr |-> IF b = a THEN r ELSE IF b = v THEN "none"
                                         ELSE rights[p][b]]
          /\ \A q \in Proc : q # p => rights'[q] = rights[q]
      BY <1>5, <1>6 DEF rights
    <2>2. QED
      BY <2>1 DEF rights
  <1>8. wants' = [wants EXCEPT ![p] = Blocks!NoAsk]
    BY <1>0, <1>1 DEF Retire, wants, WantOf, NoRequest, Blocks!NoAsk, TypeOK
  <1>9. Blocks!Wants(p, "read", a) \/ (Blocks!Wants(p, "write", a) /\ r = "write")
    BY <1>1 DEF Blocks!Wants, wants, WantOf, write_state, s
  <1>10. Blocks!Compatible(p, a, r)
    <2>1. ASSUME NEW q \in Proc \ {p}
          PROVE  rights[q][a] \in (IF r = "write" THEN {"none"} ELSE {"none", "read"})
      <3>1. line'[q][a] = line[q][a] /\ line'[p][a] = l
        BY <1>2, <1>5
      <3>2. rights[q][a] = RightOf(line[q][a])
        BY <1>2 DEF rights
      <3>3. ~Exclusive(q, a)
        BY <1>0, <1>2, <3>1 DEF SingleWriter, Exclusive
      <3>4. r = "write" => ~line[q][a].valid
        BY <1>0, <1>2, <3>1 DEF SingleWriter, Exclusive
      <3>5. QED
        BY <3>2, <3>3, <3>4 DEF RightOf, Exclusive
    <2>2. QED
      BY <2>1 DEF Blocks!Compatible
  <1>11. QED
    BY <1>2, <1>4, <1>7, <1>8, <1>9, <1>10 DEF Blocks!Grant

-----------------------------------------------------------------------------
LEMMA BlocksInit == Init => Blocks!Init
  BY DEF Init, Blocks!Init, rights, wants, RightOf, WantOf, NoLine, NoRequest,
     Blocks!NoAsk

LEMMA BlocksStep ==
    ASSUME IInv, IInv', [Next]_vars
    PROVE  [Blocks!Next]_Blocks!vars
  <1>1. ASSUME NEW p \in Proc, CacheEvent(p)
        PROVE  Blocks!Next \/ SameBlocks
    <2>1. CASE Idle(p)
      BY <2>1, RightsUnchanged, WantsUnchanged DEF Idle, requestVars, SameBlocks
    <2>2. ASSUME NEW a \in Addr, ReadMiss(p, a) \/ WriteMiss(p, a)
          PROVE  Blocks!Next
      BY <2>2, MissAsks DEF Blocks!Next
    <2>3. QED
      BY <1>1, <2>1, <2>2, HitStutters DEF CacheEvent
  <1>2. ASSUME NEW p \in Proc, HandleIncomming(p)
        PROVE  Blocks!Next \/ SameBlocks
    BY <1>2, AnswerYields, ReceiptStutters DEF HandleIncomming, Recv, Blocks!Next
  <1>3. ASSUME NEW p \in Proc, HandlePendingRequest(p)
        PROVE  Blocks!Next \/ SameBlocks
    <2>1. CASE CompleteRead(p) \/ CompleteWrite(p)
      BY <2>1, CompletionGrants DEF Blocks!Next
    <2>2. CASE NothingToDo(p)
      BY <2>2, RightsUnchanged, WantsUnchanged DEF NothingToDo, requestVars, SameBlocks
    <2>3. QED
      BY <1>3, <2>1, <2>2, ReissueStutters DEF HandlePendingRequest
  <1>4. CASE MemoryEvent
    <2>1. UNCHANGED <<line, pending_request>>
      BY <1>4 DEF MemoryEvent, MemReceive, MemAnswer, requestVars
    <2>2. QED
      BY <2>1, RightsUnchanged, WantsUnchanged, Stutter DEF SameBlocks
  <1>5. CASE UNCHANGED vars
    BY <1>5, RightsUnchanged, WantsUnchanged, Stutter DEF vars, SameBlocks
  <1>6. QED
    BY <1>1, <1>2, <1>3, <1>4, <1>5, Stutter DEF Next

\* The protocol, with its messages, retries and silent evictions, hands every
\* block over in one step of CoherentBlocks, whatever the interconnect does.
THEOREM CoherentBlocksImplemented == Spec => ImplementsCoherentBlocks
  <1>1. Spec => []IInv
    BY InvariantCorrect
  <1>2. IInv /\ IInv' /\ [Next]_vars => [Blocks!Next]_Blocks!vars
    BY BlocksStep
  <1>3. QED
    BY <1>1, <1>2, BlocksInit, PTL DEF Spec, ImplementsCoherentBlocks, Blocks!Spec

=============================================================================
