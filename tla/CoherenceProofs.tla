-------------------------- MODULE CoherenceProofs --------------------------
(***************************************************************************)
(* Proofs about MigratoryProtocol, for any processors, blocks, cache and   *)
(* table sizes, with and without --mig, on every interconnect: the types   *)
(* are kept, and IInv is an inductive invariant, so its conjuncts, the     *)
(* safety properties of the protocol, hold in every reachable state.       *)
(***************************************************************************)
EXTENDS MigratoryProtocolInv, FiniteSetTheorems, TLAPS

-----------------------------------------------------------------------------
\* Bags

\* The network after one copy of each message of out has been sent.
LEMMA NetSend ==
    ASSUME IsABag(net), NEW out, Send(out)
    PROVE  /\ IsABag(net')
           /\ DOMAIN net' = DOMAIN net \cup out
           /\ \A m \in DOMAIN net' : net'[m] = (IF m \in DOMAIN net THEN net[m] ELSE 0)
                                               + (IF m \in out THEN 1 ELSE 0)
  BY DEF IsABag, SetToBag, (+), Send

\* The network after in has been received and out has been sent.
LEMMA NetExchange ==
    ASSUME IsABag(net), NEW in, in \in DOMAIN net, NEW out, Exchange(in, out)
    PROVE  /\ IsABag(net')
           /\ DOMAIN net' = {m \in DOMAIN net : m # in \/ net[in] > 1} \cup out
           /\ \A m \in DOMAIN net' :
                 m # in => net'[m] = (IF m \in DOMAIN net THEN net[m] ELSE 0)
                                     + (IF m \in out THEN 1 ELSE 0)
  <1> DEFINE D == net (-) SetToBag({in})
  <1>1. /\ IsABag(D)
        /\ DOMAIN D = {m \in DOMAIN net : m # in \/ net[in] > 1}
        /\ \A m \in DOMAIN D : D[m] = IF m = in THEN net[m] - 1 ELSE net[m]
    BY DEF IsABag, SetToBag, (-)
  <1>2. net' = D (+) SetToBag(out)
    BY DEF Exchange
  <1> HIDE DEF D
  <1>3. /\ IsABag(net')
        /\ DOMAIN net' = DOMAIN D \cup out
        /\ \A m \in DOMAIN net' : net'[m] = (IF m \in DOMAIN D THEN D[m] ELSE 0)
                                            + (IF m \in out THEN 1 ELSE 0)
    BY <1>1, <1>2 DEF IsABag, SetToBag, (+)
  <1>4. ASSUME NEW m \in DOMAIN net', m # in
        PROVE  net'[m] = (IF m \in DOMAIN net THEN net[m] ELSE 0)
                         + (IF m \in out THEN 1 ELSE 0)
    <2>1. m \in DOMAIN D <=> m \in DOMAIN net
      BY <1>1, <1>4
    <2>2. m \in DOMAIN D => D[m] = net[m]
      BY <1>1, <1>4
    <2>3. QED
      BY <1>3, <2>1, <2>2
  <1>5. QED
    BY <1>1, <1>3, <1>4

-----------------------------------------------------------------------------
\* Type correctness

LEMMA StatesTyped ==
    /\ \A s \in CohState : rw_upgrade_state(s) \in CohState
    /\ \A s \in CohState : busRd_state(s) \in CohState
    /\ \A s, m \in BOOLEAN : read_state(s, m) \in CohState
    /\ \A s \in CohState, m \in BOOLEAN : write_state(s, m) \in CohState
  BY DoMigAssumption
     DEF CohState, rw_upgrade_state, busRd_state, read_state, write_state

LEMMA FlagsTyped ==
    /\ FLAG_SHARED \in FlagWord /\ FLAG_MIGRATORY \in FlagWord
    /\ FLAG_TRANSMIT \in FlagWord /\ {} \in FlagWord
    /\ \A s : busRd_flags(s) \in FlagWord /\ busRdX_flags(s) \in FlagWord
  BY DEF FLAG_SHARED, FLAG_MIGRATORY, FLAG_TRANSMIT, FlagWord, busRd_flags,
         busRdX_flags

LEMMA DirectoryFinite ==
    ASSUME TypeOK, NEW a \in Addr
    PROVE  /\ IsFiniteSet(directory[a])
           /\ num_proc(a) \in 0 .. Cardinality(Proc)
           /\ Cardinality(Proc) \in 0 .. UINT_MAX
  <1>1. directory[a] \subseteq Proc /\ IsFiniteSet(Proc)
    BY ProtocolAssumption DEF TypeOK
  <1>2. /\ IsFiniteSet(directory[a])
        /\ Cardinality(directory[a]) <= Cardinality(Proc)
    BY <1>1, FS_Subset
  <1>3. Cardinality(Proc) \in Nat /\ Cardinality(directory[a]) \in Nat
    BY <1>1, <1>2, FS_CardinalityType
  <1>4. QED
    BY <1>2, <1>3, ProtocolAssumption DEF num_proc

LEMMA AcksTyped ==
    ASSUME TypeOK, NEW p \in Proc, NEW a \in Addr
    PROVE  acks_for(p, a) \in 0 .. UINT_MAX
  <1>1. Cardinality(Proc) # 0
    BY ProtocolAssumption, FS_EmptySet
  <1>2. QED
    BY <1>1, DirectoryFinite, ProtocolAssumption DEF acks_for, Decrement

LEMMA BroadcastTyped ==
    ASSUME TypeOK, NEW p \in Proc, NEW a \in Addr, NEW t \in {"busRd", "busRdX"}
    PROVE  broadcast(p, t, a) \subseteq CMsg
  <1>1. Receivers(p, a) \subseteq Proc
    BY DEF Receivers, TypeOK
  <1>2. QED
    BY <1>1, FlagsTyped DEF broadcast, Request, CMsg

LEMMA AnswerTyped ==
    ASSUME TypeOK, NEW p \in Proc, NEW m \in CMsg, m.sender \in Proc,
           NEW flags \in FlagWord
    PROVE  Answer(p, m, flags) \subseteq CMsg
  <1>1. \A s : flags \cup (s \cap FLAG_TRANSMIT) \in FlagWord
    BY FlagsTyped DEF FlagWord
  <1>2. \A f \in FlagWord : send_ack(p, m, f) \subseteq CMsg
    BY DEF send_ack, CMsg
  <1>3. Data(p, m.sender, m.addr) \in CMsg
    BY FlagsTyped DEF Data, CMsg
  <1>4. QED
    BY <1>1, <1>2, <1>3 DEF Answer

LEMMA SendTyped ==
    ASSUME TypeOK, NEW out \in SUBSET CMsg, Send(out)
    PROVE  IsABag(net') /\ BagToSet(net') \subseteq CMsg
  <1>1. IsABag(net)
    BY DEF TypeOK
  <1>2. IsABag(net') /\ DOMAIN net' = DOMAIN net \cup out
    BY <1>1, NetSend
  <1>3. QED
    BY <1>2 DEF TypeOK, BagToSet

LEMMA ExchangeTyped ==
    ASSUME TypeOK, NEW in \in BagToSet(net), NEW out \in SUBSET CMsg,
           Exchange(in, out)
    PROVE  IsABag(net') /\ BagToSet(net') \subseteq CMsg
  <1>1. IsABag(net) /\ in \in DOMAIN net
    BY DEF TypeOK, BagToSet
  <1>2. /\ IsABag(net')
        /\ DOMAIN net' = {m \in DOMAIN net : m # in \/ net[in] > 1} \cup out
    BY <1>1, NetExchange
  <1>3. QED
    BY <1>2 DEF TypeOK, BagToSet

LEMMA IssueTyped ==
    ASSUME TypeOK, NEW p \in Proc, NEW a \in Addr, NEW t \in {"busRd", "busRdX"},
           Issue(p, t, a)
    PROVE  /\ pending_request' \in [Proc -> PendingRequest]
           /\ pending_reissue' \in [Proc -> BOOLEAN]
           /\ table' \in [Slot -> Entry \cup {FreeEntry}]
           /\ IsABag(net') /\ BagToSet(net') \subseteq CMsg
  <1> DEFINE req(tag) == [type |-> t, addr |-> a, needed_acks |-> acks_for(p, a),
                          tag |-> tag, got_data |-> FALSE, shared |-> FALSE,
                          migratory |-> FALSE]
  <1>1. \A tag \in Slot \cup {NoTag} : req(tag) \in PendingRequest
    BY AcksTyped DEF PendingRequest
  <1>2. CASE exists(a) \/ enter(a) = {}
    <2>1. /\ pending_request' = [pending_request EXCEPT ![p] = req(NoTag)]
          /\ pending_reissue' = [pending_reissue EXCEPT ![p] = TRUE]
          /\ UNCHANGED <<table, net>>
      BY <1>2 DEF Issue
    <2>2. QED
      BY <1>1, <2>1 DEF TypeOK
  <1>3. CASE ~(exists(a) \/ enter(a) = {})
    <2>1. PICK i \in enter(a) :
             /\ table' = [table EXCEPT ![i] = [addr |-> a, requester |-> p]]
             /\ pending_request' = [pending_request EXCEPT ![p] = req(i)]
             /\ pending_reissue' = [pending_reissue EXCEPT ![p] = FALSE]
             /\ Send(broadcast(p, t, a))
      BY <1>3 DEF Issue
    <2>2. i \in Slot
      BY DEF enter
    <2>3. IsABag(net') /\ BagToSet(net') \subseteq CMsg
      BY <2>1, BroadcastTyped, SendTyped
    <2>4. QED
      BY <1>1, <2>1, <2>2, <2>3 DEF TypeOK, Entry
  <1>4. QED
    BY <1>2, <1>3

\* What read() and write() leave behind: a request that waits to be issued
\* again, or one that has been sent.
NewRequest(p, t, a) ==
    /\ pending_request'[p].type = t /\ pending_request'[p].addr = a
    /\ pending_request'[p].needed_acks = acks_for(p, a)
    /\ ~pending_request'[p].shared /\ ~pending_request'[p].migratory
    /\ \A q \in Proc : q # p => /\ pending_request'[q] = pending_request[q]
                                /\ pending_reissue'[q] = pending_reissue[q]

Postponed(p) == pending_reissue'[p] /\ UNCHANGED <<table, net>>

Sent(p, t, a) ==
    /\ ~pending_reissue'[p] /\ ~exists(a)
    /\ Send(broadcast(p, t, a))
    /\ \E i \in Slot :
          /\ table[i] = FreeEntry
          /\ table' = [table EXCEPT ![i] = [addr |-> a, requester |-> p]]
          /\ pending_request'[p].tag = i

LEMMA IssueEffect ==
    ASSUME TypeOK, NEW p \in Proc, NEW a \in Addr, NEW t \in {"busRd", "busRdX"},
           Issue(p, t, a)
    PROVE  NewRequest(p, t, a) /\ (Postponed(p) \/ Sent(p, t, a))
  <1> DEFINE req(tag) == [type |-> t, addr |-> a, needed_acks |-> acks_for(p, a),
                          tag |-> tag, got_data |-> FALSE, shared |-> FALSE,
                          migratory |-> FALSE]
  <1>1. CASE exists(a) \/ enter(a) = {}
    <2>1. /\ pending_request' = [pending_request EXCEPT ![p] = req(NoTag)]
          /\ pending_reissue' = [pending_reissue EXCEPT ![p] = TRUE]
          /\ UNCHANGED <<table, net>>
      BY <1>1 DEF Issue
    <2>2. QED
      BY <2>1 DEF TypeOK, NewRequest, Postponed
  <1>2. CASE ~(exists(a) \/ enter(a) = {})
    <2>1. PICK i \in enter(a) :
             /\ table' = [table EXCEPT ![i] = [addr |-> a, requester |-> p]]
             /\ pending_request' = [pending_request EXCEPT ![p] = req(i)]
             /\ pending_reissue' = [pending_reissue EXCEPT ![p] = FALSE]
             /\ Send(broadcast(p, t, a))
      BY <1>2 DEF Issue
    <2>2. i \in Slot /\ table[i] = FreeEntry
      BY DEF enter
    <2>3. pending_request'[p] = req(i) /\ ~pending_reissue'[p]
      BY <2>1 DEF TypeOK
    <2>4. QED
      BY <1>2, <2>1, <2>2, <2>3 DEF TypeOK, NewRequest, Sent
  <1>3. QED
    BY <1>1, <1>2

\* What an acknowledgement and the block change in the request of p.
LEMMA RecvAckEffect ==
    ASSUME TypeOK, NEW p \in Proc, NEW m, RecvAck(p, m)
    PROVE  /\ \A q \in Proc :
                 /\ q # p => pending_request'[q] = pending_request[q]
                 /\ pending_request'[q].type = pending_request[q].type
                 /\ pending_request'[q].addr = pending_request[q].addr
                 /\ pending_request'[q].tag = pending_request[q].tag
           /\ pending_request'[p].needed_acks =
                 IF Matches(p, m) /\ m.sender # MEM
                 THEN Decrement(pending_request[p].needed_acks)
                 ELSE pending_request[p].needed_acks
           /\ pending_request'[p].shared =
                 (pending_request[p].shared \/ m.flags \cap FLAG_SHARED # {})
           /\ pending_request'[p].migratory =
                 (pending_request[p].migratory \/ m.flags \cap FLAG_MIGRATORY # {})
  <1> DEFINE r == pending_request[p]
             new == [r EXCEPT
                !.needed_acks = IF Matches(p, m) /\ m.sender # MEM
                                THEN Decrement(@) ELSE @,
                !.shared = @ \/ m.flags \cap FLAG_SHARED # {},
                !.migratory = @ \/ m.flags \cap FLAG_MIGRATORY # {}]
  <1>1. r \in PendingRequest
    BY DEF TypeOK
  <1>2. pending_request' = [pending_request EXCEPT ![p] = new]
    BY <1>1 DEF RecvAck, TypeOK, PendingRequest
  <1>3. /\ pending_request'[p] = new
        /\ \A q \in Proc : q # p => pending_request'[q] = pending_request[q]
    BY <1>2 DEF TypeOK
  <1>4. /\ new.type = r.type /\ new.addr = r.addr /\ new.tag = r.tag
        /\ new.needed_acks = IF Matches(p, m) /\ m.sender # MEM
                             THEN Decrement(r.needed_acks) ELSE r.needed_acks
        /\ new.shared = (r.shared \/ m.flags \cap FLAG_SHARED # {})
        /\ new.migratory = (r.migratory \/ m.flags \cap FLAG_MIGRATORY # {})
    BY <1>1 DEF PendingRequest
  <1>5. QED
    BY <1>3, <1>4

LEMMA RecvDataEffect ==
    ASSUME TypeOK, NEW p \in Proc, NEW m, RecvData(p, m)
    PROVE  \A q \in Proc :
              /\ pending_request'[q].type = pending_request[q].type
              /\ pending_request'[q].addr = pending_request[q].addr
              /\ pending_request'[q].tag = pending_request[q].tag
              /\ pending_request'[q].needed_acks = pending_request[q].needed_acks
              /\ pending_request'[q].shared = pending_request[q].shared
              /\ pending_request'[q].migratory = pending_request[q].migratory
  <1> DEFINE r == pending_request[p]
             new == [r EXCEPT !.got_data = @ \/ Matches(p, m)]
  <1>1. r \in PendingRequest
    BY DEF TypeOK
  <1>2. pending_request' = [pending_request EXCEPT ![p] = new]
    BY DEF RecvData
  <1>3. /\ pending_request'[p] = new
        /\ \A q \in Proc : q # p => pending_request'[q] = pending_request[q]
    BY <1>2 DEF TypeOK
  <1>4. /\ new.type = r.type /\ new.addr = r.addr /\ new.tag = r.tag
        /\ new.needed_acks = r.needed_acks
        /\ new.shared = r.shared /\ new.migratory = r.migratory
    BY <1>1 DEF PendingRequest
  <1>5. QED
    BY <1>3, <1>4

LEMMA LineUpdate ==
    ASSUME TypeOK, NEW p \in Proc, NEW a \in Addr, NEW l \in Line,
           line' = [line EXCEPT ![p][a] = l]
    PROVE  /\ line' \in [Proc -> [Addr -> Line]]
           /\ line'[p][a] = l
           /\ \A q \in Proc, b \in Addr :
                 q # p \/ b # a => line'[q][b] = line[q][b]
  BY DEF TypeOK

LEMMA CompleteTyped ==
    ASSUME TypeOK, NEW p \in Proc, NEW a \in Addr, NEW s \in CohState,
           complete(p, a, s)
    PROVE  /\ line' \in [Proc -> [Addr -> Line]]
           /\ coherence_request_pending' \in [Proc -> BOOLEAN]
  <1>1. [valid |-> TRUE, state |-> s, most_recent |-> TRUE] \in Line
    BY DEF Line
  <1>2. NoLine \in Line
    BY DEF NoLine, Line, CohState
  <1>3. QED
    BY <1>1, <1>2 DEF complete, TypeOK

LEMMA RetireTyped ==
    ASSUME TypeOK, NEW p \in Proc, Retire(p)
    PROVE  /\ pending_request' \in [Proc -> PendingRequest]
           /\ pending_reissue' \in [Proc -> BOOLEAN]
           /\ table' \in [Slot -> Entry \cup {FreeEntry}]
  <1>1. NoRequest \in PendingRequest
    BY ProtocolAssumption DEF NoRequest, PendingRequest
  <1>2. QED
    BY <1>1 DEF Retire, TypeOK

LEMMA TypeStep == TypeOK /\ ReissueHasRequest /\ [Next]_vars => TypeOK'
  <1> SUFFICES ASSUME TypeOK, ReissueHasRequest, [Next]_vars PROVE TypeOK'
    OBVIOUS
  <1>1. ASSUME NEW p \in Proc, Idle(p) PROVE TypeOK'
    BY <1>1 DEF Idle, TypeOK, requestVars
  <1>2. ASSUME NEW p \in Proc, NEW a \in Addr, ReadHit(p, a) PROVE TypeOK'
    BY <1>2, ProtocolAssumption
       DEF ReadHit, TakeMemop, StartHit, TypeOK, requestVars
  <1>3. ASSUME NEW p \in Proc, NEW a \in Addr, ReadMiss(p, a) PROVE TypeOK'
    <2>1. Issue(p, "busRd", a)
      BY <1>3 DEF ReadMiss, Miss
    <2>2. QED
      BY <1>3, <2>1, IssueTyped, ProtocolAssumption
         DEF ReadMiss, Miss, TakeMemop, TypeOK
  <1>4. ASSUME NEW p \in Proc, NEW a \in Addr, WriteHit(p, a) PROVE TypeOK'
    BY <1>4, ProtocolAssumption
       DEF WriteHit, TakeMemop, StartHit, TypeOK, requestVars
  <1>5. ASSUME NEW p \in Proc, NEW a \in Addr, WriteUpgrade(p, a) PROVE TypeOK'
    <2> DEFINE l == [line[p][a] EXCEPT !.state = rw_upgrade_state(@)]
    <2>1. line[p][a] \in Line
      BY DEF TypeOK
    <2>2. rw_upgrade_state(line[p][a].state) \in CohState
      BY <2>1, StatesTyped DEF Line
    <2>3. l \in Line
      BY <2>1, <2>2 DEF Line
    <2>4. line' = [line EXCEPT ![p] = [@ EXCEPT ![a] = l]]
      BY <1>5 DEF WriteUpgrade
    <2>5. line' \in [Proc -> [Addr -> Line]]
      BY <2>3, <2>4 DEF TypeOK
    <2>6. QED
      BY <1>5, <2>5, ProtocolAssumption
         DEF WriteUpgrade, TakeMemop, StartHit, TypeOK, requestVars
  <1>6. ASSUME NEW p \in Proc, NEW a \in Addr, WriteMiss(p, a) PROVE TypeOK'
    <2>1. Issue(p, "busRdX", a)
      BY <1>6 DEF WriteMiss, Miss
    <2>2. QED
      BY <1>6, <2>1, IssueTyped, ProtocolAssumption
         DEF WriteMiss, Miss, TakeMemop, TypeOK
  <1>7. ASSUME NEW p \in Proc, NEW m \in BagToSet(net), RecvBusRd(p, m)
        PROVE  TypeOK'
    <2> DEFINE s == line[p][m.addr].state
               l == [valid |-> s # "MIGRATORY_DIRTY", state |-> busRd_state(s),
                     most_recent |-> FALSE]
    <2>1. m \in CMsg /\ m.type = "busRd" /\ m.sender \in Proc /\ m.addr \in Addr
      BY <1>7 DEF RecvBusRd, Receive, TypeOK, CMsg
    <2>2. line[p][m.addr] \in Line
      BY <2>1 DEF TypeOK
    <2>3. l \in Line
      BY <2>2, StatesTyped DEF Line
    <2>4. line' \in [Proc -> [Addr -> Line]]
      <3>1. CASE Found(p, m.addr)
        <4>1. line' = [line EXCEPT ![p][m.addr] = l]
          BY <1>7, <3>1 DEF RecvBusRd
        <4>2. QED
          BY <2>1, <2>3, <4>1, LineUpdate
      <3>2. CASE ~Found(p, m.addr)
        BY <1>7, <3>2 DEF RecvBusRd, TypeOK
      <3>3. QED
        BY <3>1, <3>2
    <2>5. PICK flags \in FlagWord : Exchange(m, Answer(p, m, flags))
      BY <1>7, FlagsTyped DEF RecvBusRd
    <2>6. IsABag(net') /\ BagToSet(net') \subseteq CMsg
      BY <2>1, <2>5, AnswerTyped, ExchangeTyped
    <2>7. QED
      BY <1>7, <2>4, <2>6 DEF RecvBusRd, Receive, TypeOK, cacheVars, requestVars
  <1>8. ASSUME NEW p \in Proc, NEW m \in BagToSet(net), RecvBusRdX(p, m)
        PROVE  TypeOK'
    <2>1. m \in CMsg /\ m.type = "busRdX" /\ m.sender \in Proc /\ m.addr \in Addr
      BY <1>8 DEF RecvBusRdX, Receive, TypeOK, CMsg
    <2>2. NoLine \in Line
      BY DEF NoLine, Line, CohState
    <2>3. line' \in [Proc -> [Addr -> Line]]
      <3>1. CASE Found(p, m.addr)
        BY <1>8, <2>1, <2>2, <3>1, LineUpdate DEF RecvBusRdX
      <3>2. CASE ~Found(p, m.addr)
        BY <1>8, <3>2 DEF RecvBusRdX, TypeOK
      <3>3. QED
        BY <3>1, <3>2
    <2>4. PICK flags \in FlagWord : Exchange(m, Answer(p, m, flags))
      BY <1>8, FlagsTyped DEF RecvBusRdX
    <2>5. IsABag(net') /\ BagToSet(net') \subseteq CMsg
      BY <2>1, <2>4, AnswerTyped, ExchangeTyped
    <2>6. QED
      BY <1>8, <2>3, <2>5 DEF RecvBusRdX, Receive, TypeOK, cacheVars, requestVars
  <1>9. ASSUME NEW p \in Proc, NEW m \in BagToSet(net), RecvAck(p, m)
        PROVE  TypeOK'
    <2>1. IsABag(net') /\ BagToSet(net') \subseteq CMsg
      BY <1>9, ExchangeTyped DEF RecvAck
    <2>2. pending_request' \in [Proc -> PendingRequest]
      <3> DEFINE r == pending_request[p]
                 n == IF Matches(p, m) /\ m.sender # MEM
                      THEN Decrement(r.needed_acks) ELSE r.needed_acks
                 new == [r EXCEPT !.needed_acks = n,
                            !.shared = @ \/ m.flags \cap FLAG_SHARED # {},
                            !.migratory = @ \/ m.flags \cap FLAG_MIGRATORY # {}]
      <3>1. r \in PendingRequest
        BY DEF TypeOK
      <3>2. n \in 0 .. UINT_MAX
        BY <3>1, ProtocolAssumption DEF Decrement, PendingRequest
      <3>3. new \in PendingRequest
        BY <3>1, <3>2, ZenonT(60) DEF PendingRequest
      <3>4. pending_request' = [pending_request EXCEPT ![p] = new]
        BY <1>9 DEF RecvAck, TypeOK, PendingRequest
      <3>5. QED
        BY <3>3, <3>4 DEF TypeOK
    <2>3. QED
      BY <1>9, <2>1, <2>2 DEF RecvAck, Receive, TypeOK, cacheVars
  <1>10. ASSUME NEW p \in Proc, NEW m \in BagToSet(net), RecvData(p, m)
         PROVE  TypeOK'
    <2>1. IsABag(net') /\ BagToSet(net') \subseteq CMsg
      BY <1>10, ExchangeTyped DEF RecvData
    <2>2. pending_request' \in [Proc -> PendingRequest]
      <3> DEFINE new == [pending_request[p] EXCEPT !.got_data = @ \/ Matches(p, m)]
      <3>1. new \in PendingRequest
        <4>1. pending_request[p] \in PendingRequest
          BY DEF TypeOK
        <4>2. QED
          BY <4>1 DEF PendingRequest, Matches
      <3>2. pending_request' = [pending_request EXCEPT ![p] = new]
        BY <1>10 DEF RecvData
      <3>3. QED
        BY <3>1, <3>2 DEF TypeOK
    <2>3. QED
      BY <1>10, <2>1, <2>2 DEF RecvData, Receive, TypeOK, cacheVars
  <1>11. ASSUME NEW p \in Proc, HandlePendingRequest(p) PROVE TypeOK'
    <2> DEFINE r == pending_request[p]
    <2>1. ASSUME Reissue(p) PROVE TypeOK'
      <3>1. r.type \in {"busRd", "busRdX"} /\ r.addr \in Addr
        BY <2>1 DEF Reissue, MustReissue, ReissueHasRequest, TypeOK, PendingRequest
      <3>2. Issue(p, r.type, r.addr)
        BY <2>1 DEF Reissue
      <3>3. QED
        BY <1>11, <2>1, <3>1, <3>2, IssueTyped DEF HandlePendingRequest, Reissue, TypeOK
    <2>2. ASSUME CompleteRead(p) PROVE TypeOK'
      <3>1. /\ r.addr \in Addr
            /\ read_state(r.shared, r.migratory) \in CohState
        BY <2>2, StatesTyped DEF CompleteRead, TypeOK, PendingRequest
      <3>2. /\ line' \in [Proc -> [Addr -> Line]]
            /\ coherence_request_pending' \in [Proc -> BOOLEAN]
        BY <2>2, <3>1, CompleteTyped DEF CompleteRead
      <3>3. directory' \in [Addr -> SUBSET Proc]
        BY <2>2 DEF CompleteRead, add_to_directory, TypeOK
      <3>4. QED
        BY <1>11, <2>2, <3>2, <3>3, RetireTyped
           DEF HandlePendingRequest, CompleteRead, TypeOK
    <2>3. ASSUME CompleteWrite(p) PROVE TypeOK'
      <3> DEFINE own == IF Found(p, r.addr) THEN line[p][r.addr].state ELSE "INVALID"
      <3>1. r.addr \in Addr /\ r.migratory \in BOOLEAN
        BY <2>3 DEF CompleteWrite, TypeOK, PendingRequest
      <3>2. own \in CohState
        BY <3>1 DEF TypeOK, Line, CohState
      <3>3. write_state(own, r.migratory) \in CohState
        BY <3>1, <3>2, StatesTyped
      <3>4. /\ line' \in [Proc -> [Addr -> Line]]
            /\ coherence_request_pending' \in [Proc -> BOOLEAN]
        BY <2>3, <3>1, <3>3, CompleteTyped DEF CompleteWrite
      <3>5. directory' \in [Addr -> SUBSET Proc]
        BY <2>3 DEF CompleteWrite, set_new_directory, TypeOK
      <3>6. QED
        BY <1>11, <2>3, <3>4, <3>5, RetireTyped
           DEF HandlePendingRequest, CompleteWrite, TypeOK
    <2>4. ASSUME NothingToDo(p) PROVE TypeOK'
      BY <1>11, <2>4 DEF HandlePendingRequest, NothingToDo, TypeOK, requestVars
    <2>5. QED
      BY <1>11, <2>1, <2>2, <2>3, <2>4 DEF HandlePendingRequest
  <1>12. ASSUME NEW m \in BagToSet(net), MemReceive(m) PROVE TypeOK'
    <2>1. IsABag(net') /\ BagToSet(net') \subseteq CMsg
      BY <1>12, ExchangeTyped DEF MemReceive
    <2>2. memory' \in [Addr -> Proc \cup {NoProc}]
      BY <1>12 DEF MemReceive, TypeOK, CMsg
    <2>3. QED
      BY <1>12, <2>1, <2>2 DEF MemReceive, TypeOK, cacheVars, requestVars
  <1>13. ASSUME NEW a \in Addr, MemAnswer(a) PROVE TypeOK'
    <2>1. Data(MEM, memory[a], a) \in CMsg
      BY <1>13 DEF MemAnswer, Data, CMsg, TypeOK
    <2>2. IsABag(net') /\ BagToSet(net') \subseteq CMsg
      BY <1>13, <2>1, SendTyped DEF MemAnswer
    <2>3. QED
      BY <1>13, <2>2 DEF MemAnswer, TypeOK, cacheVars, requestVars
  <1>14. CASE UNCHANGED vars
    BY <1>14 DEF vars, TypeOK
  <1>15. QED
    BY <1>1, <1>2, <1>3, <1>4, <1>5, <1>6, <1>7, <1>8, <1>9, <1>10, <1>11,
       <1>12, <1>13, <1>14
       DEF Next, CacheEvent, HandleIncomming, Recv, MemoryEvent

LEMMA ReissueStep ==
    TypeOK /\ ReissueHasRequest /\ [Next]_vars => ReissueHasRequest'
  <1> SUFFICES ASSUME TypeOK, ReissueHasRequest, [Next]_vars
               PROVE  ReissueHasRequest'
    OBVIOUS
  <1>1. ASSUME UNCHANGED <<pending_request, pending_reissue>>
        PROVE  ReissueHasRequest'
    BY <1>1 DEF ReissueHasRequest
  <1>2. ASSUME NEW p \in Proc, NEW a \in Addr, NEW t \in {"busRd", "busRdX"},
               Issue(p, t, a)
        PROVE  ReissueHasRequest'
    <2>1. NewRequest(p, t, a)
      BY <1>2, IssueEffect
    <2>2. QED
      BY <2>1 DEF NewRequest, ReissueHasRequest
  <1>3. ASSUME NEW p \in Proc, Retire(p) PROVE ReissueHasRequest'
    BY <1>3 DEF Retire, ReissueHasRequest, TypeOK
  <1>4. ASSUME UNCHANGED pending_reissue,
               \A q \in Proc : pending_request'[q].type = pending_request[q].type
        PROVE  ReissueHasRequest'
    BY <1>4 DEF ReissueHasRequest
  <1>5. ASSUME NEW p \in Proc, NEW m, RecvAck(p, m) \/ RecvData(p, m)
        PROVE  ReissueHasRequest'
    <2>1. \A q \in Proc : pending_request'[q].type = pending_request[q].type
      BY <1>5, RecvAckEffect, RecvDataEffect
    <2>2. QED
      BY <1>4, <1>5, <2>1 DEF RecvAck, RecvData
  <1>6. ASSUME NEW p \in Proc, CacheEvent(p) PROVE ReissueHasRequest'
    BY <1>1, <1>2, <1>6
       DEF CacheEvent, Idle, ReadHit, ReadMiss, WriteHit, WriteUpgrade, WriteMiss,
           StartHit, Miss, requestVars
  <1>7. ASSUME NEW p \in Proc, HandlePendingRequest(p) PROVE ReissueHasRequest'
    <2>1. ASSUME Reissue(p) PROVE ReissueHasRequest'
      <3>1. /\ pending_request[p].type \in {"busRd", "busRdX"}
            /\ pending_request[p].addr \in Addr
        BY <2>1 DEF Reissue, MustReissue, ReissueHasRequest, TypeOK, PendingRequest
      <3>2. QED
        BY <1>2, <2>1, <3>1 DEF Reissue
    <2>2. QED
      BY <1>1, <1>3, <1>7, <2>1
         DEF HandlePendingRequest, CompleteRead, CompleteWrite, NothingToDo,
             requestVars
  <1>8. QED
    BY <1>1, <1>5, <1>6, <1>7
       DEF Next, HandleIncomming, Recv, RecvBusRd, RecvBusRdX, MemoryEvent,
           MemReceive, MemAnswer, requestVars, vars

LEMMA TypeInit == Init => TypeOK /\ ReissueHasRequest
  <1> SUFFICES ASSUME Init PROVE TypeOK /\ ReissueHasRequest
    OBVIOUS
  <1>1. IsABag(net) /\ BagToSet(net) = {}
    BY DEF Init, EmptyBag, SetToBag, IsABag, BagToSet
  <1>2. NoLine \in Line /\ NoRequest \in PendingRequest
    BY ProtocolAssumption
       DEF NoLine, Line, CohState, NoRequest, PendingRequest
  <1>3. QED
    BY <1>1, <1>2, ProtocolAssumption DEF Init, TypeOK, ReissueHasRequest

\* TypeOK holds in every reachable state.
THEOREM TypeCorrect == Spec => []TypeOK
  <1>1. Init => TypeOK /\ ReissueHasRequest
    BY TypeInit
  <1>2. TypeOK /\ ReissueHasRequest /\ [Next]_vars => (TypeOK /\ ReissueHasRequest)'
    BY TypeStep, ReissueStep
  <1>3. QED
    BY <1>1, <1>2, PTL DEF Spec

-----------------------------------------------------------------------------
\* Facts about one state

\* Two requests that have been sent are for different blocks.
LEMMA ActiveUnique ==
    ASSUME TableOwnership, NEW p \in Proc, NEW q \in Proc, Active(p), Active(q),
           pending_request[p].addr = pending_request[q].addr, TypeOK
    PROVE  p = q
  <1> DEFINE i == pending_request[p].tag
             j == pending_request[q].tag
  <1>1. /\ i \in Slot /\ table[i] = [addr |-> pending_request[p].addr, requester |-> p]
        /\ j \in Slot /\ table[j] = [addr |-> pending_request[q].addr, requester |-> q]
    BY DEF TableOwnership
  <1>2. pending_request[p].addr \in Addr
    BY DEF Active, TypeOK, PendingRequest
  <1>3. table[i] # FreeEntry
    BY <1>1, <1>2, ProtocolAssumption DEF FreeEntry, NoAddr
  <1>4. i = j
    BY <1>1, <1>3 DEF TableOwnership
  <1>5. QED
    BY <1>1, <1>4

\* A request on its way to a processor is the one its sender waits for.
LEMMA RequestKnown ==
    ASSUME TypeOK, TrafficShape, AcksExact, NEW m \in Traffic,
           m.type \in {"busRd", "busRdX"}
    PROVE  /\ m.sender \in Proc /\ m.receiver \in Proc /\ m.sender # m.receiver
           /\ m.addr \in Addr /\ net[m] = 1
           /\ Active(m.sender)
           /\ m.addr = pending_request[m.sender].addr
           /\ m.type = pending_request[m.sender].type
           /\ m = RequestTo(m.sender, m.receiver)
  <1>1. /\ m \in CMsg /\ m \in BagToSet(net) /\ m.receiver # MEM
        /\ m \in [type : {"busRd", "busRdX"}, sender : Proc,
                  receiver : Proc \cup {MEM}, addr : Addr, flags : {{}}]
    BY DEF Traffic, TypeOK, CMsg
  <1>2. /\ m.type = pending_request[m.sender].type /\ m.sender # m.receiver
    BY <1>1 DEF TrafficShape
  <1>3. /\ net[m] = 1 /\ Active(m.sender)
        /\ pending_request[m.sender].addr = m.addr
    BY DEF AcksExact
  <1>4. m = RequestTo(m.sender, m.receiver)
    BY <1>1, <1>2, <1>3 DEF RequestTo, Request
  <1>5. QED
    BY <1>1, <1>2, <1>3, <1>4

\* An acknowledgement on its way to a processor is for the request its receiver
\* waits with.
LEMMA AckKnown ==
    ASSUME TypeOK, TrafficShape, AcksExact, NEW m \in Traffic, m.type = "ack"
    PROVE  /\ m.sender \in Proc /\ m.receiver \in Proc /\ m.sender # m.receiver
           /\ m.addr \in Addr /\ net[m] = 1
           /\ Active(m.receiver)
           /\ m.addr = pending_request[m.receiver].addr
           /\ m \in AcksFrom(m.receiver, m.sender)
           /\ m.flags \cap FLAG_TRANSMIT = {}
  <1>1. /\ m \in BagToSet(net) /\ m.receiver # MEM
        /\ m \in [type : {"ack"}, sender : Proc, receiver : Proc \cup {MEM},
                  addr : Addr, flags : FlagWord]
    BY DEF Traffic, TypeOK, CMsg
  <1>2. m.sender # m.receiver /\ m.flags \cap FLAG_TRANSMIT = {}
    BY <1>1 DEF TrafficShape
  <1>3. /\ net[m] = 1 /\ Active(m.receiver)
        /\ pending_request[m.receiver].addr = m.addr
    BY DEF AcksExact
  <1>4. QED
    BY <1>1, <1>2, <1>3 DEF AcksFrom

\* The processor whose request a message on its way belongs to.
Owner(m) == IF m.type = "ack" THEN m.receiver ELSE m.sender

LEMMA TrafficOwned ==
    ASSUME TypeOK, NEW m \in Traffic
    PROVE  /\ Owner(m) \in Proc /\ m.type \in {"busRd", "busRdX", "ack"}
           /\ m.sender \in Proc /\ m.receiver \in Proc
  BY DEF Traffic, TypeOK, CMsg, Owner

\* A used entry of the request table names a processor and a block.
LEMMA EntryOwned ==
    ASSUME TypeOK, NEW i \in Slot, table[i] # FreeEntry
    PROVE  table[i].requester \in Proc /\ table[i].addr \in Addr
  BY DEF TypeOK, Entry

-----------------------------------------------------------------------------
\* Steps that leave the rights of the caches, the requests that have been sent
\* and the traffic alone

SameActive ==
    \A r \in Proc :
        /\ Active(r)' <=> Active(r)
        /\ Active(r) =>
              /\ pending_request'[r].type = pending_request[r].type
              /\ pending_request'[r].addr = pending_request[r].addr
              /\ pending_request'[r].tag = pending_request[r].tag
              /\ pending_request'[r].needed_acks = pending_request[r].needed_acks
              /\ pending_request'[r].shared = pending_request[r].shared
              /\ pending_request'[r].migratory = pending_request[r].migratory

SameTraffic == Traffic' = Traffic /\ \A m \in Traffic : net'[m] = net[m]

SameRights ==
    \A r \in Proc, a \in Addr :
        /\ line'[r][a].valid = line[r][a].valid
        /\ line'[r][a].most_recent = line[r][a].most_recent
        /\ Exclusive(r, a)' <=> Exclusive(r, a)

\* Such a step preserves the invariant.
LEMMA FrameStep ==
    ASSUME IInv, TypeOK', TrafficShape', LinesNormal', AssertsHold',
           SameActive, SameTraffic, SameRights, UNCHANGED <<table, directory>>
    PROVE  IInv'
  <1>0. TypeOK
    BY DEF IInv
  <1>1. \A p \in Proc : Active(p) => pending_request[p].addr \in Addr
    BY <1>0 DEF Active, TypeOK, PendingRequest
  <1>2. \A p \in Proc : \A q : Active(p) => RequestTo(p, q)' = RequestTo(p, q)
    BY DEF RequestTo, Request, SameActive
  <1>3. \A p, q : AcksFrom(p, q)' = AcksFrom(p, q)
    BY DEF AcksFrom, SameTraffic
  <1>4. \A p \in Proc : Active(p) => Waiting(p)' = Waiting(p)
    BY <1>2, <1>3 DEF Waiting, SameTraffic
  <1>5. DirectoryCovers' /\ SingleWriter' /\ OneSupplier'
    BY DEF IInv, DirectoryCovers, SingleWriter, OneSupplier, SameRights
  <1>6. TableOwnership'
    <2>1. \A i \in Slot : table[i] # FreeEntry => table[i].requester \in Proc
      BY <1>0, EntryOwned
    <2>2. TableOwnership
      BY DEF IInv
    <2>3. \A i \in Slot : table[i] # FreeEntry =>
             /\ Active(table[i].requester)'
             /\ pending_request'[table[i].requester].tag = i
      BY <2>1, <2>2 DEF TableOwnership, SameActive
    <2>4. \A p \in Proc : Active(p)' =>
             /\ pending_request'[p].tag \in Slot
             /\ table[pending_request'[p].tag] =
                   [addr |-> pending_request'[p].addr, requester |-> p]
      BY <2>2 DEF TableOwnership, SameActive
    <2>5. QED
      BY <2>2, <2>3, <2>4 DEF TableOwnership
  <1>7. AcksExact'
    <2>1. AcksExact
      BY DEF IInv
    <2>2. ASSUME NEW p \in Proc, Active(p)'
          PROVE  /\ pending_request'[p].needed_acks = Cardinality(Waiting(p)')
                 /\ \A q \in Proc \ {p} :
                       /\ \A m, n \in AcksFrom(p, q)' : m = n
                       /\ RequestTo(p, q)' \in Traffic' => AcksFrom(p, q)' = {}
      BY <1>2, <1>3, <1>4, <2>1, <2>2 DEF AcksExact, SameActive, SameTraffic
    <2>3. ASSUME NEW m \in Traffic'
          PROVE  /\ net'[m] = 1 /\ Active(Owner(m))'
                 /\ pending_request'[Owner(m)].addr = m.addr
      <3>1. m \in Traffic /\ net'[m] = net[m]
        BY DEF SameTraffic
      <3>2. Owner(m) \in Proc
        BY <1>0, <3>1, TrafficOwned
      <3>3. /\ net[m] = 1 /\ Active(Owner(m))
            /\ pending_request[Owner(m)].addr = m.addr
        BY <2>1, <3>1 DEF AcksExact, Owner
      <3>4. QED
        BY <3>1, <3>2, <3>3 DEF SameActive
    <2>4. QED
      BY <2>2, <2>3 DEF AcksExact, Owner
  <1>8. WriteReachesHolders' /\ RequestReachesSupplier'
    BY <1>1, <1>2 DEF IInv, WriteReachesHolders, RequestReachesSupplier,
       SameActive, SameTraffic, SameRights
  <1>9. ReadReachesHolders'
    BY <1>1, <1>2, <1>3 DEF IInv, ReadReachesHolders, SharedReported,
       SameActive, SameTraffic, SameRights
  <1>10. MigrationMovesTheBlock'
    BY <1>1 DEF IInv, MigrationMovesTheBlock, SameActive, SameTraffic, SameRights
  <1>11. QED
    BY <1>5, <1>6, <1>7, <1>8, <1>9, <1>10 DEF IInv

-----------------------------------------------------------------------------
\* The traffic after messages have been sent and received

TrafficOf(S) == {m \in S : m.type # "data" /\ m.receiver # MEM}

\* Messages that are not on their way already are sent.
LEMMA TrafficSend ==
    ASSUME TypeOK, AcksExact, NEW out, Send(out), TrafficOf(out) \cap Traffic = {}
    PROVE  /\ Traffic' = Traffic \cup TrafficOf(out)
           /\ \A m \in Traffic' : net'[m] = 1
           /\ BagToSet(net') = BagToSet(net) \cup out
  <1>1. /\ IsABag(net)
        /\ \A m \in Traffic : net[m] = 1
    BY DEF TypeOK, AcksExact
  <1>2. /\ DOMAIN net' = DOMAIN net \cup out
        /\ \A m \in DOMAIN net' : net'[m] = (IF m \in DOMAIN net THEN net[m] ELSE 0)
                                            + (IF m \in out THEN 1 ELSE 0)
    BY <1>1, NetSend
  <1>3. Traffic' = Traffic \cup TrafficOf(out)
    BY <1>2 DEF Traffic, TrafficOf, BagToSet
  <1>4. ASSUME NEW m \in Traffic' PROVE net'[m] = 1
    <2>1. m \in DOMAIN net' /\ m.type # "data" /\ m.receiver # MEM
      BY DEF Traffic, BagToSet
    <2>2. CASE m \in Traffic
      <3>1. m \in DOMAIN net /\ m \notin out
        BY <2>1, <2>2 DEF Traffic, BagToSet, TrafficOf
      <3>2. QED
        BY <1>1, <1>2, <2>1, <2>2, <3>1
    <2>3. CASE m \notin Traffic
      <3>1. m \notin DOMAIN net /\ m \in out
        BY <1>2, <2>1, <2>3 DEF Traffic, BagToSet, TrafficOf
      <3>2. QED
        BY <1>2, <2>1, <3>1
    <2>4. QED
      BY <2>2, <2>3
  <1>5. QED
    BY <1>2, <1>3, <1>4 DEF BagToSet

\* A request or an acknowledgement is received.
LEMMA TrafficExchange ==
    ASSUME TypeOK, AcksExact, NEW in \in Traffic, NEW out, Exchange(in, out),
           TrafficOf(out) \cap Traffic = {}
    PROVE  /\ Traffic' = (Traffic \ {in}) \cup TrafficOf(out)
           /\ \A m \in Traffic' : net'[m] = 1
           /\ BagToSet(net') \subseteq BagToSet(net) \cup out
  <1>1. /\ IsABag(net) /\ in \in DOMAIN net
        /\ \A m \in Traffic : net[m] = 1
    BY DEF TypeOK, AcksExact, Traffic, BagToSet
  <1>2. /\ DOMAIN net' = {m \in DOMAIN net : m # in \/ net[in] > 1} \cup out
        /\ \A m \in DOMAIN net' :
              m # in => net'[m] = (IF m \in DOMAIN net THEN net[m] ELSE 0)
                                  + (IF m \in out THEN 1 ELSE 0)
    BY <1>1, NetExchange
  <1>3. DOMAIN net' = (DOMAIN net \ {in}) \cup out
    BY <1>1, <1>2
  <1>4. Traffic' = (Traffic \ {in}) \cup TrafficOf(out)
    BY <1>3 DEF Traffic, TrafficOf, BagToSet
  <1>5. ASSUME NEW m \in Traffic' PROVE net'[m] = 1
    <2>1. m \in DOMAIN net' /\ m.type # "data" /\ m.receiver # MEM
      BY DEF Traffic, BagToSet
    <2>2. in \notin TrafficOf(out) /\ m # in
      BY <1>4
    <2>3. CASE m \in Traffic
      <3>1. m \in DOMAIN net /\ m \notin out
        BY <2>1, <2>3 DEF Traffic, BagToSet, TrafficOf
      <3>2. QED
        BY <1>1, <1>2, <2>1, <2>2, <2>3, <3>1
    <2>4. CASE m \notin Traffic
      <3>1. m \notin DOMAIN net /\ m \in out
        BY <1>3, <2>1, <2>4 DEF Traffic, BagToSet, TrafficOf
      <3>2. QED
        BY <1>2, <2>1, <2>2, <3>1
    <2>5. QED
      BY <2>3, <2>4
  <1>6. QED
    BY <1>3, <1>4, <1>5 DEF BagToSet

\* A block is received, or the memory receives a message.
LEMMA TrafficUntouched ==
    ASSUME TypeOK, NEW in \in BagToSet(net), in \notin Traffic, Exchange(in, {})
    PROVE  /\ SameTraffic
           /\ BagToSet(net') \subseteq BagToSet(net)
  <1>1. IsABag(net) /\ in \in DOMAIN net
    BY DEF TypeOK, BagToSet
  <1>2. /\ DOMAIN net' = {m \in DOMAIN net : m # in \/ net[in] > 1}
        /\ \A m \in DOMAIN net' :
              m # in => net'[m] = IF m \in DOMAIN net THEN net[m] ELSE 0
    <2>1. PICK out : out = {} /\ Exchange(in, out)
      OBVIOUS
    <2>2. /\ DOMAIN net' = {m \in DOMAIN net : m # in \/ net[in] > 1} \cup out
          /\ \A m \in DOMAIN net' :
                m # in => net'[m] = (IF m \in DOMAIN net THEN net[m] ELSE 0)
                                    + (IF m \in out THEN 1 ELSE 0)
      BY <1>1, <2>1, NetExchange
    <2>3. QED
      BY <1>1, <2>1, <2>2 DEF IsABag
  <1>3. Traffic' = Traffic
    BY <1>2 DEF Traffic, BagToSet
  <1>4. QED
    BY <1>2, <1>3 DEF Traffic, BagToSet, SameTraffic

\* A request is new only if its sender was not waiting for another.
LEMMA QuietBefore ==
    ASSUME TypeOK, TrafficShape, AcksExact, NEW p \in Proc, ~Active(p)
    PROVE  /\ \A m \in Traffic : Owner(m) # p
           /\ \A q : AcksFrom(p, q) = {}
  BY DEF AcksExact, Owner, AcksFrom

\* A request that waits for no acknowledgement has nothing on its way.
LEMMA QuietAfter ==
    ASSUME TypeOK, TrafficShape, AcksExact, NEW p \in Proc, Active(p),
           pending_request[p].needed_acks = 0
    PROVE  /\ \A m \in Traffic : Owner(m) # p
           /\ \A q \in Proc : q # p => AcksFrom(p, q) = {} /\ RequestTo(p, q) \notin Traffic
  <1>1. Waiting(p) = {}
    <2>1. IsFiniteSet(Waiting(p)) /\ Cardinality(Waiting(p)) = 0
      BY FS_Subset, ProtocolAssumption DEF Waiting, AcksExact
    <2>2. QED
      BY <2>1, FS_EmptySet
  <1>2. \A q \in Proc : q # p => AcksFrom(p, q) = {} /\ RequestTo(p, q) \notin Traffic
    BY <1>1 DEF Waiting
  <1>3. ASSUME NEW m \in Traffic, Owner(m) = p PROVE FALSE
    <2>1. CASE m.type = "ack"
      BY <1>2, <1>3, <2>1, AckKnown DEF Owner
    <2>2. CASE m.type # "ack"
      <3>1. m.type \in {"busRd", "busRdX"}
        BY <2>2, TrafficOwned
      <3>2. QED
        BY <1>2, <1>3, <2>2, <3>1, RequestKnown DEF Owner
    <2>3. QED
      BY <2>1, <2>2
  <1>4. QED
    BY <1>2, <1>3

-----------------------------------------------------------------------------
\* A new request is sent

\* read() and write() wait for as many acknowledgements as there are processors
\* they send the request to.
LEMMA AcksForReceivers ==
    ASSUME TypeOK, NEW p \in Proc, NEW a \in Addr
    PROVE  /\ acks_for(p, a) = Cardinality(Receivers(p, a))
           /\ Receivers(p, a) \subseteq Proc /\ p \notin Receivers(p, a)
  <1>1. /\ IsFiniteSet(Proc) /\ IsFiniteSet(directory[a]) /\ directory[a] \subseteq Proc
    BY ProtocolAssumption, DirectoryFinite DEF TypeOK
  <1>2. /\ Cardinality(Proc \ {p}) = Cardinality(Proc) - 1
        /\ p \in directory[a] =>
              /\ Cardinality(directory[a] \ {p}) = num_proc(a) - 1
              /\ num_proc(a) # 0
    BY <1>1, FS_RemoveElement, FS_EmptySet DEF num_proc
  <1>3. CASE Broadcasting(a)
    BY <1>2, <1>3 DEF acks_for, Receivers
  <1>4. CASE ~Broadcasting(a) /\ p \in directory[a]
    BY <1>1, <1>2, <1>4 DEF acks_for, Receivers, Decrement
  <1>5. CASE ~Broadcasting(a) /\ p \notin directory[a]
    <2>1. directory[a] \ {p} = directory[a]
      BY <1>5
    <2>2. QED
      BY <1>1, <1>5, <2>1 DEF acks_for, Receivers, num_proc
  <1>6. QED
    BY <1>1, <1>3, <1>4, <1>5 DEF Receivers

\* Sending a request preserves the invariant: whoever holds the block is in the
\* directory, so the request is on its way to it.
LEMMA SentStep ==
    ASSUME IInv, TypeOK', LinesNormal', AssertsHold',
           NEW p \in Proc, NEW a \in Addr, NEW t \in {"busRd", "busRdX"},
           ~Active(p), NewRequest(p, t, a), Sent(p, t, a),
           UNCHANGED <<line, directory>>
    PROVE  IInv'
  <1> DEFINE New == {Request(p, t, a, q) : q \in Receivers(p, a)}
  <1>0. /\ TypeOK /\ TrafficShape /\ AcksExact /\ TableOwnership
        /\ p # MEM /\ MEM \notin Proc
    BY ProtocolAssumption DEF IInv
  <1>1. /\ Active(p)'
        /\ \A r \in Proc : r # p =>
              /\ Active(r)' <=> Active(r)
              /\ pending_request'[r] = pending_request[r]
    BY DEF NewRequest, Sent, Active
  <1>2. /\ \A m \in Traffic : Owner(m) # p
        /\ \A q : AcksFrom(p, q) = {}
    BY <1>0, QuietBefore
  <1>3. Receivers(p, a) \subseteq Proc \ {p}
    BY <1>0, AcksForReceivers
  <1>4. TrafficOf(broadcast(p, t, a)) = New
    BY <1>0, <1>3 DEF TrafficOf, broadcast, Request
  <1>5. \A m \in New : /\ m.type = t /\ m.sender = p /\ m.addr = a
                       /\ m.receiver \in Proc \ {p} /\ Owner(m) = p /\ m.type # "ack"
    BY <1>3 DEF Request, Owner
  <1>6. /\ Traffic' = Traffic \cup New
        /\ \A m \in Traffic' : net'[m] = 1
        /\ BagToSet(net') = BagToSet(net) \cup broadcast(p, t, a)
    BY <1>0, <1>2, <1>4, <1>5, TrafficSend DEF Sent
  <1> HIDE DEF New
  <1>7. \A r \in Proc : \A q : r # p =>
           /\ RequestTo(r, q)' = RequestTo(r, q)
           /\ RequestTo(r, q) \notin New
    BY <1>1, <1>5 DEF RequestTo, Request
  <1>8. \A q \in Proc : q # p =>
           (RequestTo(p, q)' \in Traffic' <=> q \in Receivers(p, a))
    <2>1. \A q : RequestTo(p, q)' = Request(p, t, a, q)
      BY DEF NewRequest, RequestTo
    <2>2. \A q : Owner(Request(p, t, a, q)) = p
      BY DEF Owner, Request
    <2>3. \A q : Request(p, t, a, q) \in New <=> q \in Receivers(p, a)
      BY DEF New, Request
    <2>4. QED
      BY <1>2, <1>6, <2>1, <2>2, <2>3
  <1>9. \A r, q : AcksFrom(r, q)' = AcksFrom(r, q)
    BY <1>5, <1>6 DEF AcksFrom
  <1>10. \A r \in Proc : r # p => Waiting(r)' = Waiting(r)
    BY <1>6, <1>7, <1>9 DEF Waiting
  <1>11. Waiting(p)' = Receivers(p, a)
    BY <1>2, <1>3, <1>8, <1>9 DEF Waiting
  <1>12. \A q \in Proc : q # p /\ line[q][a].valid => RequestTo(p, q)' \in Traffic'
    BY <1>8 DEF Receivers, IInv, DirectoryCovers, Broadcasting
  <1>13. TrafficShape'
    <2> SUFFICES ASSUME NEW m \in BagToSet(net')
                 PROVE  /\ m.sender # m.receiver
                        /\ m.type = "ack" => m.flags \cap FLAG_TRANSMIT = {}
                        /\ m.type \in {"busRd", "busRdX"} /\ m.receiver # MEM =>
                              m.type = pending_request'[m.sender].type
      BY DEF TrafficShape
    <2>1. CASE m \in BagToSet(net)
      <3>1. ASSUME m.type \in {"busRd", "busRdX"}, m.receiver # MEM
            PROVE  m.type = pending_request'[m.sender].type
        <4>1. m \in Traffic
          BY <2>1, <3>1 DEF Traffic
        <4>2. m.sender \in Proc /\ m.sender # p /\ m.type = pending_request[m.sender].type
          BY <1>0, <1>2, <3>1, <4>1, RequestKnown DEF Owner
        <4>3. QED
          BY <1>1, <4>2
      <3>2. QED
        BY <1>0, <2>1, <3>1 DEF TrafficShape
    <2>2. CASE m \in broadcast(p, t, a)
      BY <1>0, <1>3, <2>2 DEF broadcast, Request, NewRequest
    <2>3. QED
      BY <1>6, <2>1, <2>2
  <1>14. TableOwnership'
    <2>1. PICK i \in Slot :
             /\ table[i] = FreeEntry
             /\ table' = [table EXCEPT ![i] = [addr |-> a, requester |-> p]]
             /\ pending_request'[p].tag = i
      BY DEF Sent
    <2>2. /\ table'[i] = [addr |-> a, requester |-> p]
          /\ \A j \in Slot : j # i => table'[j] = table[j]
      BY <1>0, <2>1 DEF TypeOK
    <2>3. \A j \in Slot : table[j].addr # a
      BY DEF Sent, exists
    <2>4. \A j, k \in Slot : j # k /\ table'[j] # FreeEntry => table'[j].addr # table'[k].addr
      <3>1. FreeEntry.addr # a
        BY ProtocolAssumption DEF FreeEntry, NoAddr
      <3>2. QED
        BY <1>0, <2>2, <2>3 DEF TableOwnership
    <2>5. ASSUME NEW j \in Slot, table'[j] # FreeEntry
          PROVE  /\ Active(table[j].requester)'
                 /\ pending_request'[table'[j].requester].tag = j
      <3>1. CASE j = i
        BY <1>1, <2>1, <2>2, <3>1
      <3>2. CASE j # i
        <4>1. /\ table[j].requester \in Proc /\ Active(table[j].requester)
              /\ pending_request[table[j].requester].tag = j
          BY <1>0, <2>2, <2>5, <3>2, EntryOwned DEF TableOwnership
        <4>2. QED
          BY <1>1, <2>2, <3>2, <4>1
      <3>3. QED
        BY <3>1, <3>2
    <2>6. ASSUME NEW r \in Proc, Active(r)'
          PROVE  /\ pending_request'[r].tag \in Slot
                 /\ table'[pending_request'[r].tag] =
                       [addr |-> pending_request'[r].addr, requester |-> r]
      <3>1. CASE r = p
        BY <2>1, <2>2, <3>1 DEF NewRequest
      <3>2. CASE r # p
        <4>1. /\ pending_request[r].tag \in Slot /\ pending_request[r].addr \in Addr
              /\ table[pending_request[r].tag] =
                    [addr |-> pending_request[r].addr, requester |-> r]
          BY <1>0, <1>1, <2>6, <3>2 DEF TableOwnership, Active, TypeOK, PendingRequest
        <4>2. pending_request[r].tag # i
          BY <2>1, <4>1, ProtocolAssumption DEF FreeEntry, NoAddr
        <4>3. QED
          BY <1>1, <2>2, <3>2, <4>1, <4>2
      <3>3. QED
        BY <3>1, <3>2
    <2>7. QED
      BY <2>4, <2>5, <2>6 DEF TableOwnership
  <1>15. AcksExact'
    <2>1. ASSUME NEW r \in Proc, Active(r)'
          PROVE  /\ pending_request'[r].needed_acks = Cardinality(Waiting(r)')
                 /\ \A q \in Proc \ {r} :
                       /\ \A m, n \in AcksFrom(r, q)' : m = n
                       /\ RequestTo(r, q)' \in Traffic' => AcksFrom(r, q)' = {}
      <3>1. CASE r = p
        BY <1>0, <1>2, <1>9, <1>11, <3>1, AcksForReceivers DEF NewRequest
      <3>2. CASE r # p
        <4>1. /\ pending_request'[r].needed_acks = Cardinality(Waiting(r)')
          BY <1>0, <1>1, <1>10, <2>1, <3>2 DEF AcksExact
        <4>2. QED
          BY <1>0, <1>1, <1>6, <1>7, <1>9, <2>1, <3>2, <4>1 DEF AcksExact
      <3>3. QED
        BY <3>1, <3>2
    <2>2. ASSUME NEW m \in Traffic'
          PROVE  /\ net'[m] = 1 /\ Active(Owner(m))'
                 /\ pending_request'[Owner(m)].addr = m.addr
      <3>1. CASE m \in New
        BY <1>1, <1>5, <1>6, <3>1 DEF NewRequest
      <3>2. CASE m \in Traffic
        <4>1. /\ Owner(m) \in Proc /\ Owner(m) # p /\ Active(Owner(m))
              /\ pending_request[Owner(m)].addr = m.addr
          BY <1>0, <1>2, <3>2, TrafficOwned DEF AcksExact, Owner
        <4>2. QED
          BY <1>1, <1>6, <4>1
      <3>3. QED
        BY <1>6, <3>1, <3>2
    <2>3. QED
      BY <2>1, <2>2 DEF AcksExact, Owner
  <1>16. \A r \in Proc : Active(r) => pending_request[r].addr \in Addr
    BY <1>0 DEF Active, TypeOK, PendingRequest
  <1>17. WriteReachesHolders'
    <2>1. \A q \in Proc : q # p /\ line'[q][a].valid => RequestTo(p, q)' \in Traffic'
      BY <1>12
    <2>2. WriteReachesHolders
      BY DEF IInv
    <2>3. ASSUME NEW r \in Proc, Active(r)', pending_request'[r].type = "busRdX",
                 NEW q \in Proc \ {r}, line'[q][pending_request'[r].addr].valid
          PROVE  RequestTo(r, q)' \in Traffic'
      <3>1. CASE r = p
        BY <2>1, <2>3, <3>1 DEF NewRequest
      <3>2. CASE r # p
        BY <1>1, <1>6, <1>7, <2>2, <2>3, <3>2 DEF WriteReachesHolders
      <3>3. QED
        BY <3>1, <3>2
    <2>4. QED
      BY <2>3 DEF WriteReachesHolders
  <1>18. RequestReachesSupplier'
    <2>1. \A q \in Proc : q # p /\ line'[q][a].most_recent => RequestTo(p, q)' \in Traffic'
      BY <1>12 DEF IInv, LinesNormal, NoLine
    <2>2. RequestReachesSupplier
      BY DEF IInv
    <2>3. ASSUME NEW r \in Proc, Active(r)',
                 NEW q \in Proc \ {r}, line'[q][pending_request'[r].addr].most_recent
          PROVE  RequestTo(r, q)' \in Traffic'
      <3>1. CASE r = p
        BY <2>1, <2>3, <3>1 DEF NewRequest
      <3>2. CASE r # p
        BY <1>1, <1>6, <1>7, <2>2, <2>3, <3>2 DEF RequestReachesSupplier
      <3>3. QED
        BY <3>1, <3>2
    <2>4. QED
      BY <2>3 DEF RequestReachesSupplier
  <1>19. ReadReachesHolders'
    <2>1. \A r \in Proc : \A b : Exclusive(r, b)' <=> Exclusive(r, b)
      BY DEF Exclusive
    <2>2. ReadReachesHolders
      BY DEF IInv
    <2>3. ASSUME NEW r \in Proc, Active(r)', pending_request'[r].type = "busRd",
                 NEW q \in Proc \ {r}, line'[q][pending_request'[r].addr].valid
          PROVE  \/ RequestTo(r, q)' \in Traffic'
                 \/ /\ ~Exclusive(q, pending_request[r].addr)'
                    /\ SharedReported(r, q)'
      <3>1. CASE r = p
        BY <1>12, <2>3, <3>1 DEF NewRequest
      <3>2. CASE r # p
        BY <1>1, <1>6, <1>7, <1>9, <2>1, <2>2, <2>3, <3>2
           DEF ReadReachesHolders, SharedReported
      <3>3. QED
        BY <3>1, <3>2
    <2>4. QED
      BY <2>3 DEF ReadReachesHolders
  <1>20. MigrationMovesTheBlock'
    <2>1. MigrationMovesTheBlock
      BY DEF IInv
    <2>2. ASSUME NEW r \in Proc, Active(r)', pending_request'[r].type = "busRd",
                 \/ pending_request'[r].migratory
                 \/ \E m \in Traffic' : /\ m.type = "ack" /\ m.receiver = r
                                        /\ m.flags \cap FLAG_MIGRATORY # {}
          PROVE  \A q \in Proc : ~line'[q][pending_request'[r].addr].valid
      <3>1. r # p
        BY <1>2, <1>5, <1>6, <2>2 DEF NewRequest, Owner
      <3>2. \/ pending_request[r].migratory
            \/ \E m \in Traffic : /\ m.type = "ack" /\ m.receiver = r
                                  /\ m.flags \cap FLAG_MIGRATORY # {}
        BY <1>1, <1>5, <1>6, <2>2, <3>1
      <3>3. QED
        BY <1>1, <2>1, <2>2, <3>1, <3>2 DEF MigrationMovesTheBlock
    <2>3. QED
      BY <2>2 DEF MigrationMovesTheBlock
  <1>21. DirectoryCovers' /\ SingleWriter' /\ OneSupplier'
    BY DEF IInv, DirectoryCovers, SingleWriter, OneSupplier, Exclusive
  <1>22. QED
    BY <1>13, <1>14, <1>15, <1>17, <1>18, <1>19, <1>20, <1>21 DEF IInv

-----------------------------------------------------------------------------
\* A request is answered

\* What p acknowledges m with.
Ack(p, m, flags) ==
    [type |-> "ack", sender |-> p, receiver |-> m.sender, addr |-> m.addr,
     flags |-> flags]

\* An answer puts one acknowledgement in the traffic, which never announces
\* that the holder transmits the block.
LEMMA AnswerTraffic ==
    ASSUME NEW p \in Proc, NEW m, m.sender \in Proc, NEW flags \in FlagWord,
           flags \cap FLAG_TRANSMIT = {}
    PROVE  /\ TrafficOf(Answer(p, m, flags)) = {Ack(p, m, flags)}
           /\ \A n \in Answer(p, m, flags) :
                 /\ n.sender = p /\ n.receiver \in {m.sender, MEM}
                 /\ n.type \in {"ack", "data"}
                 /\ n.type = "ack" => n.flags = flags
  <1> DEFINE supplies == BoolWord(Found(p, m.addr))
                            \cap BoolWord(line[p][m.addr].most_recent)
  <1>1. supplies \cap FLAG_TRANSMIT = {}
    BY DEF BoolWord, FLAG_TRANSMIT
  <1>2. flags \cup (supplies \cap FLAG_TRANSMIT) = flags
    BY <1>1
  <1>3. Answer(p, m, flags) =
           send_ack(p, m, flags)
           \cup (IF supplies # {} THEN {Data(p, m.sender, m.addr)} ELSE {})
    BY <1>2 DEF Answer
  <1> HIDE DEF supplies
  <1>4. \A n \in Answer(p, m, flags) :
           \/ n = Ack(p, m, flags)
           \/ n = [Ack(p, m, flags) EXCEPT !.receiver = MEM]
           \/ n = Data(p, m.sender, m.addr)
    BY <1>3 DEF send_ack, Ack
  <1>5. Ack(p, m, flags) \in Answer(p, m, flags)
    BY <1>3 DEF send_ack, Ack
  <1>6. m.sender # MEM
    BY ProtocolAssumption
  <1>7. QED
    BY <1>4, <1>5, <1>6 DEF TrafficOf, Ack, Data

\* What p has left of the block of m, and what it says, after it has answered
\* m: nothing after a write request, no right to write after a read request.
GivesUp(p, m, flags) ==
    LET l == line'[p][m.addr]
    IN  /\ \A q \in Proc, b \in Addr :
              q # p \/ b # m.addr => line'[q][b] = line[q][b]
        /\ ~l.most_recent
        /\ l.state \in {"INVALID", "SHARED", "SHARED2"}
        /\ l.valid <=> l.state # "INVALID"
        /\ ~l.valid => l = NoLine
        /\ l.valid => line[p][m.addr].valid
        /\ m.type = "busRdX" => ~l.valid
        /\ m.type = "busRd" /\ l.valid => flags \cap FLAG_SHARED # {}
        /\ m.type = "busRd" /\ flags \cap FLAG_MIGRATORY # {} =>
              ~l.valid /\ Exclusive(p, m.addr)

\* Answering a request preserves the invariant: the acknowledgement takes the
\* place of the request, and says what the requester has to know.
LEMMA AnswerStep ==
    ASSUME IInv, TypeOK', NEW p \in Proc, NEW m \in Traffic,
           m.type \in {"busRd", "busRdX"}, m.receiver = p,
           NEW flags \in FlagWord, flags \cap FLAG_TRANSMIT = {},
           Exchange(m, Answer(p, m, flags)), GivesUp(p, m, flags),
           UNCHANGED <<coherence_request_pending, requestVars, directory>>
    PROVE  IInv'
  <1> DEFINE s == m.sender
             ack == Ack(p, m, flags)
  <1>0. /\ TypeOK /\ TrafficShape /\ AcksExact /\ TableOwnership /\ LinesNormal
        /\ AssertsHold /\ p # MEM /\ MEM \notin Proc
        /\ UNCHANGED <<pending_request, pending_reissue, table>>
    BY ProtocolAssumption DEF IInv, requestVars
  <1>1. /\ s \in Proc /\ s # p /\ m.addr \in Addr
        /\ Active(s)
        /\ m.addr = pending_request[s].addr /\ m.type = pending_request[s].type
        /\ m = RequestTo(s, p)
    BY <1>0, RequestKnown
  <1>2. AcksFrom(s, p) = {}
    BY <1>0, <1>1 DEF AcksExact
  <1>3. /\ ack.type = "ack" /\ ack.sender = p /\ ack.receiver = s
        /\ ack.addr = m.addr /\ ack.flags = flags /\ Owner(ack) = s /\ ack # m
    BY DEF Ack, Owner
  <1>4. ack \notin Traffic
    BY <1>2, <1>3 DEF AcksFrom
  <1>5. /\ TrafficOf(Answer(p, m, flags)) = {ack}
        /\ \A n \in Answer(p, m, flags) :
                 /\ n.sender = p /\ n.receiver \in {m.sender, MEM}
                 /\ n.type \in {"ack", "data"}
                 /\ n.type = "ack" => n.flags = flags
    BY <1>1, AnswerTraffic
  <1>6. /\ Traffic' = (Traffic \ {m}) \cup {ack}
        /\ \A n \in Traffic' : net'[n] = 1
        /\ BagToSet(net') \subseteq BagToSet(net) \cup Answer(p, m, flags)
    BY <1>0, <1>4, <1>5, TrafficExchange
  <1> HIDE DEF ack
  <1>7. \A r \in Proc :
           /\ Active(r)' <=> Active(r)
           /\ pending_request'[r] = pending_request[r]
    BY <1>0 DEF Active
  <1>8. \A r, q : /\ RequestTo(r, q)' = RequestTo(r, q)
                  /\ RequestTo(r, q).type = pending_request[r].type
                  /\ RequestTo(r, q).receiver = q /\ RequestTo(r, q).sender = r
                  /\ RequestTo(r, q).addr = pending_request[r].addr
    BY <1>0 DEF RequestTo, Request
  <1>9. \A r \in Proc : \A q : RequestTo(r, q) # ack
    <2>1. \A r \in Proc : pending_request[r].type # "ack"
      BY <1>0 DEF TypeOK, PendingRequest
    <2>2. QED
      BY <1>3, <1>8, <2>1
  <1>10. \A r \in Proc : \A q : (r # s \/ q # p) => AcksFrom(r, q)' = AcksFrom(r, q)
    BY <1>1, <1>3, <1>6 DEF AcksFrom
  <1>11. AcksFrom(s, p)' = {ack}
    BY <1>1, <1>2, <1>3, <1>6 DEF AcksFrom
  <1>12. \A r \in Proc, q \in Proc :
            RequestTo(r, q)' \in Traffic' <=>
               RequestTo(r, q) \in Traffic /\ (r # s \/ q # p)
    BY <1>1, <1>6, <1>8, <1>9
  <1>13. \A r \in Proc : Waiting(r)' = Waiting(r)
    <2>1. ASSUME NEW r \in Proc, NEW q \in Proc \ {r}
          PROVE  (RequestTo(r, q)' \in Traffic' \/ AcksFrom(r, q)' # {}) <=>
                    (RequestTo(r, q) \in Traffic \/ AcksFrom(r, q) # {})
      BY <1>1, <1>10, <1>11, <1>12
    <2>2. QED
      BY <2>1 DEF Waiting
  <1>14. /\ \A r \in Proc, b \in Addr :
               /\ line'[r][b].valid => line[r][b].valid
               /\ line'[r][b].most_recent =>
                     line[r][b].most_recent /\ (r # p \/ b # m.addr)
               /\ Exclusive(r, b)' =>
                     /\ Exclusive(r, b) /\ (r # p \/ b # m.addr)
                     /\ line'[r][b] = line[r][b]
    BY <1>1 DEF GivesUp, Exclusive
  <1>15. TrafficShape'
    <2> SUFFICES ASSUME NEW n \in BagToSet(net')
                 PROVE  /\ n.sender # n.receiver
                        /\ n.type = "ack" => n.flags \cap FLAG_TRANSMIT = {}
                        /\ n.type \in {"busRd", "busRdX"} /\ n.receiver # MEM =>
                              n.type = pending_request'[n.sender].type
      BY DEF TrafficShape
    <2>1. CASE n \in BagToSet(net)
      BY <1>0, <2>1 DEF TrafficShape
    <2>2. CASE n \in Answer(p, m, flags)
      BY <1>0, <1>1, <1>5, <2>2
    <2>3. QED
      BY <1>6, <2>1, <2>2
  <1>16. AcksExact'
    <2>1. ASSUME NEW r \in Proc, Active(r)'
          PROVE  /\ pending_request'[r].needed_acks = Cardinality(Waiting(r)')
                 /\ \A q \in Proc \ {r} :
                       /\ \A x, y \in AcksFrom(r, q)' : x = y
                       /\ RequestTo(r, q)' \in Traffic' => AcksFrom(r, q)' = {}
      <3>1. pending_request'[r].needed_acks = Cardinality(Waiting(r)')
        BY <1>0, <1>7, <1>13, <2>1 DEF AcksExact
      <3>2. ASSUME NEW q \in Proc \ {r}
            PROVE  /\ \A x, y \in AcksFrom(r, q)' : x = y
                   /\ RequestTo(r, q)' \in Traffic' => AcksFrom(r, q)' = {}
        <4>1. CASE r = s /\ q = p
          BY <1>11, <1>12, <4>1
        <4>2. CASE r # s \/ q # p
          BY <1>0, <1>7, <1>10, <1>12, <2>1, <4>2 DEF AcksExact
        <4>3. QED
          BY <4>1, <4>2
      <3>3. QED
        BY <3>1, <3>2
    <2>2. ASSUME NEW n \in Traffic'
          PROVE  /\ net'[n] = 1 /\ Active(Owner(n))'
                 /\ pending_request'[Owner(n)].addr = n.addr
      <3>1. CASE n = ack
        BY <1>1, <1>3, <1>6, <1>7, <3>1
      <3>2. CASE n \in Traffic
        <4>1. /\ Owner(n) \in Proc /\ Active(Owner(n))
              /\ pending_request[Owner(n)].addr = n.addr
          BY <1>0, <3>2, TrafficOwned DEF AcksExact, Owner
        <4>2. QED
          BY <1>6, <1>7, <4>1
      <3>3. QED
        BY <1>6, <3>1, <3>2
    <2>3. QED
      BY <2>1, <2>2 DEF AcksExact, Owner
  <1>17. \A r \in Proc : Active(r) => pending_request[r].addr \in Addr
    BY <1>0 DEF Active, TypeOK, PendingRequest
  <1>18. WriteReachesHolders'
    <2>1. WriteReachesHolders
      BY DEF IInv
    <2>2. ASSUME NEW r \in Proc, Active(r), pending_request[r].type = "busRdX",
                 NEW q \in Proc \ {r}, line'[q][pending_request[r].addr].valid
          PROVE  RequestTo(r, q)' \in Traffic'
      <3>1. RequestTo(r, q) \in Traffic
        BY <1>14, <1>17, <2>1, <2>2 DEF WriteReachesHolders
      <3>2. r # s \/ q # p
        BY <1>1, <2>2 DEF GivesUp
      <3>3. QED
        BY <1>12, <3>1, <3>2
    <2>3. QED
      BY <1>7, <2>2 DEF WriteReachesHolders
  <1>19. RequestReachesSupplier'
    <2>1. RequestReachesSupplier
      BY DEF IInv
    <2>2. ASSUME NEW r \in Proc, Active(r),
                 NEW q \in Proc \ {r}, line'[q][pending_request[r].addr].most_recent
          PROVE  RequestTo(r, q)' \in Traffic'
      <3>1. RequestTo(r, q) \in Traffic
        BY <1>14, <1>17, <2>1, <2>2 DEF RequestReachesSupplier
      <3>2. r # s \/ q # p
        BY <1>1, <1>14, <2>2
      <3>3. QED
        BY <1>12, <3>1, <3>2
    <2>3. QED
      BY <1>7, <2>2 DEF RequestReachesSupplier
  <1>20. ReadReachesHolders'
    <2>1. ReadReachesHolders
      BY DEF IInv
    <2>2. ASSUME NEW r \in Proc, Active(r), pending_request[r].type = "busRd",
                 NEW q \in Proc \ {r}, line'[q][pending_request[r].addr].valid
          PROVE  \/ RequestTo(r, q)' \in Traffic'
                 \/ /\ ~Exclusive(q, pending_request[r].addr)'
                    /\ SharedReported(r, q)'
      <3>1. CASE r = s /\ q = p
        <4>1. flags \cap FLAG_SHARED # {}
          BY <1>1, <2>2, <3>1 DEF GivesUp
        <4>2. SharedReported(s, p)'
          BY <1>3, <1>11, <4>1 DEF SharedReported
        <4>3. ~Exclusive(p, m.addr)'
          BY <1>1, <1>14
        <4>4. QED
          BY <1>0, <1>1, <3>1, <4>2, <4>3
      <3>2. CASE r # s \/ q # p
        <4>1. \/ RequestTo(r, q) \in Traffic
              \/ /\ ~Exclusive(q, pending_request[r].addr)
                 /\ SharedReported(r, q)
          BY <1>14, <1>17, <2>1, <2>2 DEF ReadReachesHolders
        <4>2. SharedReported(r, q) => SharedReported(r, q)'
          BY <1>7, <1>10, <3>2 DEF SharedReported
        <4>3. QED
          BY <1>0, <1>12, <1>14, <1>17, <2>2, <3>2, <4>1, <4>2
      <3>3. QED
        BY <3>1, <3>2
    <2>3. QED
      BY <1>0, <1>7, <2>2 DEF ReadReachesHolders
  <1>21. SingleWriter' /\ OneSupplier'
    BY <1>14 DEF IInv, SingleWriter, OneSupplier
  <1>22. MigrationMovesTheBlock'
    <2>1. MigrationMovesTheBlock /\ SingleWriter
      BY DEF IInv
    <2>2. ASSUME NEW r \in Proc, Active(r), pending_request[r].type = "busRd",
                 \/ pending_request[r].migratory
                 \/ \E n \in Traffic' : /\ n.type = "ack" /\ n.receiver = r
                                        /\ n.flags \cap FLAG_MIGRATORY # {}
          PROVE  \A q \in Proc : ~line'[q][pending_request[r].addr].valid
      <3>1. CASE \/ pending_request[r].migratory
                 \/ \E n \in Traffic : /\ n.type = "ack" /\ n.receiver = r
                                       /\ n.flags \cap FLAG_MIGRATORY # {}
        BY <1>14, <1>17, <2>1, <2>2, <3>1 DEF MigrationMovesTheBlock
      <3>2. CASE r = s /\ flags \cap FLAG_MIGRATORY # {}
        BY <1>1, <1>14, <2>1, <2>2, <3>2 DEF GivesUp, SingleWriter
      <3>3. QED
        BY <1>3, <1>6, <2>2, <3>1, <3>2
    <2>3. QED
      BY <1>7, <2>2 DEF MigrationMovesTheBlock
  <1>23. LinesNormal'
    BY <1>0, <1>1 DEF GivesUp, LinesNormal
  <1>24. AssertsHold'
    <2>1. ASSUME NEW r \in Proc, NEW b \in Addr
          PROVE  /\ line'[r][b].valid <=> line'[r][b].state # "INVALID"
                 /\ line'[r][b].state \in {"MIGRATORY_CLEAN", "MIGRATORY_DIRTY"} => do_mig
                 /\ pending_request[r].type = "busRdX" /\ pending_request[r].addr = b
                       => line'[r][b].state \in {"INVALID", "SHARED", "SHARED2"}
                 /\ pending_request[r].type = "busRd" /\ pending_request[r].addr = b
                       => line'[r][b].state = "INVALID"
      <3>1. CASE r = p /\ b = m.addr
        BY <1>0, <3>1 DEF GivesUp, AssertsHold
      <3>2. CASE r # p \/ b # m.addr
        BY <1>0, <3>2 DEF GivesUp, AssertsHold
      <3>3. QED
        BY <3>1, <3>2
    <2>2. QED
      BY <1>0, <2>1 DEF AssertsHold
  <1>25. DirectoryCovers'
    BY <1>14 DEF IInv, DirectoryCovers
  <1>26. TableOwnership'
    BY <1>0 DEF TableOwnership, Active
  <1>27. QED
    BY <1>15, <1>16, <1>18, <1>19, <1>20, <1>21, <1>22, <1>23, <1>24, <1>25,
       <1>26 DEF IInv

\* The two ways to answer.
LEMMA RecvBusRdAnswers ==
    ASSUME IInv, NEW p \in Proc, NEW m \in Traffic, RecvBusRd(p, m)
    PROVE  \E flags \in FlagWord :
              /\ flags \cap FLAG_TRANSMIT = {}
              /\ Exchange(m, Answer(p, m, flags)) /\ GivesUp(p, m, flags)
  <1> DEFINE l == line[p][m.addr]
             new == [valid |-> l.state # "MIGRATORY_DIRTY",
                     state |-> busRd_state(l.state), most_recent |-> FALSE]
  <1>0. /\ TypeOK /\ TrafficShape /\ AcksExact /\ LinesNormal /\ AssertsHold
        /\ m.type = "busRd"
    BY DEF IInv, RecvBusRd, Receive
  <1>1. m.addr \in Addr /\ l \in Line
    BY <1>0, RequestKnown DEF TypeOK
  <1>2. CASE Found(p, m.addr)
    <2> DEFINE flags == busRd_flags(l.state)
    <2>1. line' = [line EXCEPT ![p][m.addr] = new] /\ Exchange(m, Answer(p, m, flags))
      BY <1>2 DEF RecvBusRd
    <2>2. flags \in FlagWord /\ flags \cap FLAG_TRANSMIT = {}
      BY FlagsTyped DEF busRd_flags, FLAG_SHARED, FLAG_MIGRATORY, FLAG_TRANSMIT
    <2>3. new \in Line
      BY <1>1, StatesTyped DEF Line
    <2>4. /\ line'[p][m.addr] = new
          /\ \A q \in Proc, b \in Addr :
                q # p \/ b # m.addr => line'[q][b] = line[q][b]
      BY <1>0, <1>1, <2>1, <2>3 DEF TypeOK
    <2>5. /\ new.state \in {"INVALID", "SHARED", "SHARED2"}
          /\ new.valid <=> new.state # "INVALID"
          /\ ~new.valid => new = NoLine
          /\ new.valid => flags \cap FLAG_SHARED # {}
          /\ flags \cap FLAG_MIGRATORY # {} => ~new.valid /\ l.state = "MIGRATORY_DIRTY"
      <3>1. CASE l.state = "MIGRATORY_DIRTY"
        BY <3>1 DEF busRd_state, busRd_flags, FLAG_SHARED, FLAG_MIGRATORY, NoLine
      <3>2. CASE l.state # "MIGRATORY_DIRTY"
        <4>1. new.valid /\ new.state \in {"SHARED", "SHARED2"}
          BY <3>2 DEF busRd_state
        <4>2. flags = FLAG_SHARED
          BY <3>2 DEF busRd_flags
        <4>3. flags \cap FLAG_SHARED # {} /\ flags \cap FLAG_MIGRATORY = {}
          BY <4>2 DEF FLAG_SHARED, FLAG_MIGRATORY
        <4>4. QED
          BY <4>1, <4>3
      <3>3. QED
        BY <3>1, <3>2
    <2>6. GivesUp(p, m, flags)
      BY <1>0, <1>2, <2>4, <2>5, SMTT(60) DEF GivesUp, Exclusive, Found
    <2>7. QED
      BY <2>1, <2>2, <2>6
  <1>3. CASE ~Found(p, m.addr)
    <2>1. line' = line /\ Exchange(m, Answer(p, m, {}))
      BY <1>3 DEF RecvBusRd
    <2>2. l = NoLine
      BY <1>0, <1>1, <1>3 DEF LinesNormal, Found
    <2>3. GivesUp(p, m, {})
      BY <1>0, <2>1, <2>2 DEF GivesUp, NoLine
    <2>4. QED
      BY <2>1, <2>3, FlagsTyped
  <1>4. QED
    BY <1>2, <1>3

LEMMA RecvBusRdXAnswers ==
    ASSUME IInv, NEW p \in Proc, NEW m \in Traffic, RecvBusRdX(p, m)
    PROVE  \E flags \in FlagWord :
              /\ flags \cap FLAG_TRANSMIT = {}
              /\ Exchange(m, Answer(p, m, flags)) /\ GivesUp(p, m, flags)
  <1> DEFINE l == line[p][m.addr]
  <1>0. /\ TypeOK /\ TrafficShape /\ AcksExact /\ LinesNormal /\ AssertsHold
        /\ m.type = "busRdX"
    BY DEF IInv, RecvBusRdX, Receive
  <1>1. m.addr \in Addr /\ l \in Line
    BY <1>0, RequestKnown DEF TypeOK
  <1>2. CASE Found(p, m.addr)
    <2> DEFINE flags == busRdX_flags(l.state)
    <2>1. line' = [line EXCEPT ![p][m.addr] = NoLine] /\ Exchange(m, Answer(p, m, flags))
      BY <1>2 DEF RecvBusRdX
    <2>2. flags \in FlagWord /\ flags \cap FLAG_TRANSMIT = {}
      BY FlagsTyped DEF busRdX_flags, FLAG_MIGRATORY, FLAG_TRANSMIT
    <2>3. NoLine \in Line
      BY DEF NoLine, Line, CohState
    <2>4. /\ line'[p][m.addr] = NoLine
          /\ \A q \in Proc, b \in Addr :
                q # p \/ b # m.addr => line'[q][b] = line[q][b]
      BY <1>0, <1>1, <2>1, <2>3 DEF TypeOK
    <2>5. GivesUp(p, m, flags)
      BY <1>0, <2>4 DEF GivesUp, NoLine
    <2>6. QED
      BY <2>1, <2>2, <2>5
  <1>3. CASE ~Found(p, m.addr)
    <2>1. line' = line /\ Exchange(m, Answer(p, m, {}))
      BY <1>3 DEF RecvBusRdX
    <2>2. l = NoLine
      BY <1>0, <1>1, <1>3 DEF LinesNormal, Found
    <2>3. GivesUp(p, m, {})
      BY <1>0, <2>1, <2>2 DEF GivesUp, NoLine
    <2>4. QED
      BY <2>1, <2>3, FlagsTyped
  <1>4. QED
    BY <1>2, <1>3

-----------------------------------------------------------------------------
\* An acknowledgement is received

\* Receiving an acknowledgement preserves the invariant: it is the only one of
\* its sender, so one acknowledgement less is to come, and the request remembers
\* its flags.
LEMMA AckStep ==
    ASSUME IInv, TypeOK', NEW p \in Proc, NEW m \in BagToSet(net), RecvAck(p, m)
    PROVE  IInv'
  <1> DEFINE s == m.sender
  <1>0. /\ TypeOK /\ TrafficShape /\ AcksExact /\ TableOwnership /\ LinesNormal
        /\ AssertsHold /\ p # MEM /\ MEM \notin Proc
        /\ m.type = "ack" /\ m.receiver = p
        /\ UNCHANGED <<line, coherence_request_pending, pending_reissue, table, directory>>
    BY ProtocolAssumption DEF IInv, RecvAck, Receive, cacheVars
  <1>1. m \in Traffic
    BY <1>0 DEF Traffic
  <1>2. /\ s \in Proc /\ s # p /\ s # MEM /\ m.addr \in Addr
        /\ Active(p)
        /\ m.addr = pending_request[p].addr
        /\ m \in AcksFrom(p, s)
    BY <1>0, <1>1, AckKnown
  <1>3. Matches(p, m)
    BY <1>2 DEF Matches, Active
  <1>4. /\ \A r \in Proc :
              /\ r # p => pending_request'[r] = pending_request[r]
              /\ pending_request'[r].type = pending_request[r].type
              /\ pending_request'[r].addr = pending_request[r].addr
              /\ pending_request'[r].tag = pending_request[r].tag
        /\ pending_request'[p].needed_acks = Decrement(pending_request[p].needed_acks)
        /\ pending_request'[p].shared =
              (pending_request[p].shared \/ m.flags \cap FLAG_SHARED # {})
        /\ pending_request'[p].migratory =
              (pending_request[p].migratory \/ m.flags \cap FLAG_MIGRATORY # {})
    BY <1>0, <1>2, <1>3, RecvAckEffect
  <1>5. /\ Traffic' = Traffic \ {m}
        /\ \A n \in Traffic' : net'[n] = 1
        /\ BagToSet(net') \subseteq BagToSet(net)
    <2>1. PICK out : out = {} /\ Exchange(m, out)
      BY DEF RecvAck
    <2>2. TrafficOf(out) = {}
      BY <2>1 DEF TrafficOf
    <2>3. QED
      BY <1>0, <1>1, <2>1, <2>2, TrafficExchange
  <1>6. \A r \in Proc : Active(r)' <=> Active(r)
    BY <1>0, <1>4 DEF Active
  <1>7. \A r \in Proc : \A q : /\ RequestTo(r, q)' = RequestTo(r, q)
                                   /\ RequestTo(r, q) # m
    <2>1. \A r \in Proc : pending_request[r].type # "ack"
      BY <1>0 DEF TypeOK, PendingRequest
    <2>2. QED
      <3>1. \A r \in Proc : \A q : /\ RequestTo(r, q).type = pending_request[r].type
                                   /\ RequestTo(r, q)' = RequestTo(r, q)
        BY <1>4 DEF RequestTo, Request
      <3>2. QED
        BY <1>0, <2>1, <3>1
  <1>8. \A r, q : (r # p \/ q # s) => AcksFrom(r, q)' = AcksFrom(r, q)
    BY <1>0, <1>5 DEF AcksFrom
  <1>9. AcksFrom(p, s) = {m} /\ AcksFrom(p, s)' = {} /\ RequestTo(p, s) \notin Traffic
    <2>1. AcksFrom(p, s) = {m} /\ RequestTo(p, s) \notin Traffic
      BY <1>0, <1>2 DEF AcksExact
    <2>2. AcksFrom(p, s)' = AcksFrom(p, s) \ {m}
      BY <1>5 DEF AcksFrom
    <2>3. QED
      BY <2>1, <2>2
  <1>10. \A r \in Proc : r # p => Waiting(r)' = Waiting(r)
    BY <1>5, <1>7, <1>8 DEF Waiting
  <1>11. Waiting(p)' = Waiting(p) \ {s} /\ s \in Waiting(p)
    BY <1>2, <1>5, <1>7, <1>8, <1>9 DEF Waiting
  <1>12. pending_request'[p].needed_acks = Cardinality(Waiting(p)')
    <2>1. IsFiniteSet(Waiting(p)) /\ pending_request[p].needed_acks = Cardinality(Waiting(p))
      BY <1>0, <1>2, FS_Subset, ProtocolAssumption DEF Waiting, AcksExact
    <2>2. /\ Cardinality(Waiting(p) \ {s}) = Cardinality(Waiting(p)) - 1
          /\ Cardinality(Waiting(p)) # 0
      BY <1>11, <2>1, FS_RemoveElement, FS_EmptySet
    <2>3. QED
      BY <1>4, <1>11, <2>1, <2>2 DEF Decrement
  <1>13. \A r \in Proc : Active(r) => pending_request[r].addr \in Addr
    BY <1>0 DEF Active, TypeOK, PendingRequest
  <1>14. TrafficShape'
    <2>1. ASSUME NEW n \in BagToSet(net'), n.type \in {"busRd", "busRdX"}, n.receiver # MEM
          PROVE  n.type = pending_request'[n.sender].type
      <3>1. n \in Traffic
        BY <1>5, <2>1 DEF Traffic
      <3>2. QED
        BY <1>0, <1>4, <2>1, <3>1, RequestKnown
    <2>2. QED
      BY <1>0, <1>5, <2>1 DEF TrafficShape
  <1>15. AcksExact'
    <2>1. ASSUME NEW r \in Proc, Active(r)'
          PROVE  /\ pending_request'[r].needed_acks = Cardinality(Waiting(r)')
                 /\ \A q \in Proc \ {r} :
                       /\ \A x, y \in AcksFrom(r, q)' : x = y
                       /\ RequestTo(r, q)' \in Traffic' => AcksFrom(r, q)' = {}
      <3>1. pending_request'[r].needed_acks = Cardinality(Waiting(r)')
        BY <1>0, <1>4, <1>6, <1>10, <1>12, <2>1 DEF AcksExact
      <3>2. ASSUME NEW q \in Proc \ {r}
            PROVE  /\ \A x, y \in AcksFrom(r, q)' : x = y
                   /\ RequestTo(r, q)' \in Traffic' => AcksFrom(r, q)' = {}
        <4>1. CASE r = p /\ q = s
          BY <1>9, <4>1
        <4>2. CASE r # p \/ q # s
          BY <1>0, <1>5, <1>6, <1>7, <1>8, <2>1, <4>2 DEF AcksExact
        <4>3. QED
          BY <4>1, <4>2
      <3>3. QED
        BY <3>1, <3>2
    <2>2. ASSUME NEW n \in Traffic'
          PROVE  /\ net'[n] = 1 /\ Active(Owner(n))'
                 /\ pending_request'[Owner(n)].addr = n.addr
      <3>1. /\ Owner(n) \in Proc /\ Active(Owner(n))
            /\ pending_request[Owner(n)].addr = n.addr
        BY <1>0, <1>5, TrafficOwned DEF AcksExact, Owner
      <3>2. QED
        BY <1>4, <1>5, <1>6, <3>1
    <2>3. QED
      BY <2>1, <2>2 DEF AcksExact, Owner
  <1>16. WriteReachesHolders' /\ RequestReachesSupplier'
    BY <1>0, <1>4, <1>5, <1>6, <1>7
       DEF IInv, WriteReachesHolders, RequestReachesSupplier
  <1>17. ReadReachesHolders'
    <2>1. \A r \in Proc : \A b : Exclusive(r, b)' <=> Exclusive(r, b)
      BY <1>0 DEF Exclusive
    <2>2. ASSUME NEW r \in Proc, NEW q, SharedReported(r, q)
          PROVE  SharedReported(r, q)'
      <3>1. pending_request[r].shared => pending_request'[r].shared
        BY <1>4
      <3>2. CASE r = p /\ q = s
        BY <1>4, <1>9, <2>2, <3>1, <3>2 DEF SharedReported
      <3>3. CASE r # p \/ q # s
        BY <1>8, <2>2, <3>1, <3>3 DEF SharedReported
      <3>4. QED
        BY <3>2, <3>3
    <2>3. QED
      BY <1>0, <1>4, <1>5, <1>6, <1>7, <2>1, <2>2 DEF IInv, ReadReachesHolders
  <1>18. MigrationMovesTheBlock'
    <2>1. ASSUME NEW r \in Proc,
                 \/ pending_request'[r].migratory
                 \/ \E n \in Traffic' : /\ n.type = "ack" /\ n.receiver = r
                                        /\ n.flags \cap FLAG_MIGRATORY # {}
          PROVE  \/ pending_request[r].migratory
                 \/ \E n \in Traffic : /\ n.type = "ack" /\ n.receiver = r
                                       /\ n.flags \cap FLAG_MIGRATORY # {}
      BY <1>0, <1>1, <1>4, <1>5, <2>1
    <2>2. QED
      BY <1>0, <1>4, <1>6, <2>1 DEF IInv, MigrationMovesTheBlock
  <1>19. AssertsHold'
    BY <1>0, <1>4 DEF AssertsHold
  <1>20. TableOwnership'
    <2>1. \A i \in Slot : table[i] # FreeEntry => table[i].requester \in Proc
      BY <1>0, EntryOwned
    <2>2. QED
      BY <1>0, <1>4, <1>6, <2>1 DEF TableOwnership
  <1>21. DirectoryCovers' /\ SingleWriter' /\ OneSupplier' /\ LinesNormal'
    BY <1>0 DEF IInv, DirectoryCovers, SingleWriter, OneSupplier, LinesNormal, Exclusive
  <1>22. QED
    BY <1>14, <1>15, <1>16, <1>17, <1>18, <1>19, <1>20, <1>21 DEF IInv

-----------------------------------------------------------------------------
\* A request is completed

\* complete_read and complete_write put block a in the cache of p in state s,
\* and may throw out other blocks.
Installs(p, a, s) ==
    /\ line'[p][a] = [valid |-> TRUE, state |-> s, most_recent |-> TRUE]
    /\ \A b \in Addr : b # a => line'[p][b] \in {line[p][b], NoLine}
    /\ \A q \in Proc : q # p => line'[q] = line[q]

\* What complete() does to the cache of p, whatever it throws out.
LEMMA CompleteInstalls ==
    ASSUME TypeOK, NEW p \in Proc, NEW a \in Addr, NEW s, complete(p, a, s)
    PROVE  /\ Installs(p, a, s)
           /\ coherence_request_pending' =
                 [coherence_request_pending EXCEPT ![p] = FALSE]
  <1> DEFINE new(v) ==
         [b \in Addr |->
            IF b = a THEN [valid |-> TRUE, state |-> s, most_recent |-> TRUE]
            ELSE IF b = v THEN NoLine
            ELSE line[p][b]]
  <1>1. PICK v \in victims(p, a) : line' = [line EXCEPT ![p] = new(v)]
    BY DEF complete
  <1>2. line'[p] = new(v) /\ \A q \in Proc : q # p => line'[q] = line[q]
    BY <1>1 DEF TypeOK
  <1>3. QED
    BY <1>2 DEF Installs, complete

\* What the cache may install: the directory covers it, nobody else supplies the
\* block or may write it, and if p may write it nobody else has it.
MayInstall(p, a, s) ==
    /\ s # "INVALID"
    /\ s \in {"MIGRATORY_CLEAN", "MIGRATORY_DIRTY"} => do_mig
    /\ UsesDirectory =>
          /\ p \in directory'[a]
          /\ \A q \in Proc : line[q][a].valid => q \in directory'[a]
          /\ \A b \in Addr : b # a => directory'[b] = directory[b]
    /\ \A q \in Proc : q # p =>
          /\ ~line[q][a].most_recent /\ ~Exclusive(q, a)
          /\ s \in {"EXCLUSIVE", "DIRTY", "MIGRATORY_CLEAN", "MIGRATORY_DIRTY"} =>
                ~line[q][a].valid

\* Completing a request preserves the invariant, when the line may be installed.
LEMMA CompleteStep ==
    ASSUME IInv, TypeOK', NEW p \in Proc, Completed(p), NEW s \in CohState,
           NEW a \in Addr, a = pending_request[p].addr,
           complete(p, a, s), Retire(p), net' = net, MayInstall(p, a, s)
    PROVE  IInv'
  <1> DEFINE tag == pending_request[p].tag
  <1>0. /\ TypeOK /\ TrafficShape /\ AcksExact /\ TableOwnership /\ LinesNormal
        /\ AssertsHold
    BY DEF IInv
  <1>1. Active(p) /\ pending_request[p].needed_acks = 0 /\ a \in Addr /\ tag \in Slot
    BY <1>0 DEF Completed, Active, TypeOK, PendingRequest, TableOwnership
  <1>2. /\ \A m \in Traffic : Owner(m) # p
        /\ \A q \in Proc : q # p => AcksFrom(p, q) = {} /\ RequestTo(p, q) \notin Traffic
    BY <1>0, <1>1, QuietAfter
  <1>3. /\ Installs(p, a, s)
        /\ coherence_request_pending' = [coherence_request_pending EXCEPT ![p] = FALSE]
    BY <1>0, <1>1, CompleteInstalls
  <1>4. /\ ~Active(p)' /\ pending_request'[p].type = "none" /\ ~pending_reissue'[p]
        /\ \A r \in Proc : r # p =>
              /\ Active(r)' <=> Active(r)
              /\ pending_request'[r] = pending_request[r]
              /\ pending_reissue'[r] = pending_reissue[r]
        /\ table'[tag] = FreeEntry
        /\ \A i \in Slot : i # tag => table'[i] = table[i]
    BY <1>0, <1>1 DEF Retire, TypeOK, NoRequest, Active
  <1>5. Traffic' = Traffic
    BY DEF Traffic
  <1>6. \A r \in Proc : \A q : r # p =>
           /\ RequestTo(r, q)' = RequestTo(r, q)
           /\ AcksFrom(r, q)' = AcksFrom(r, q)
    BY <1>4, <1>5 DEF RequestTo, Request, AcksFrom
  <1>7. \A r \in Proc : r # p => Waiting(r)' = Waiting(r)
    BY <1>5, <1>6 DEF Waiting
  <1>8. \A r \in Proc : r # p /\ Active(r) =>
           pending_request[r].addr # a /\ pending_request[r].addr \in Addr
    BY <1>0, <1>1, ActiveUnique DEF Active, TypeOK, PendingRequest
  <1>9. \A r \in Proc, b \in Addr : r # p \/ b # a =>
           line'[r][b] \in {line[r][b], NoLine}
    BY <1>3 DEF Installs
  <1>10. \A r \in Proc, b \in Addr : r # p \/ b # a =>
           /\ line'[r][b].valid => line[r][b].valid
           /\ line'[r][b].most_recent => line[r][b].most_recent
           /\ Exclusive(r, b)' => Exclusive(r, b) /\ line'[r][b] = line[r][b]
    BY <1>9 DEF NoLine, Exclusive
  <1>11. TrafficShape'
    <2>1. ASSUME NEW n \in BagToSet(net), n.type \in {"busRd", "busRdX"}, n.receiver # MEM
          PROVE  n.type = pending_request'[n.sender].type
      <3>1. n \in Traffic
        BY <2>1 DEF Traffic
      <3>2. n.sender \in Proc /\ n.sender # p /\ n.type = pending_request[n.sender].type
        BY <1>0, <1>2, <2>1, <3>1, RequestKnown DEF Owner
      <3>3. QED
        BY <1>4, <3>2
    <2>2. QED
      BY <1>0, <2>1 DEF TrafficShape
  <1>12. AcksExact'
    <2>1. ASSUME NEW r \in Proc, Active(r)'
          PROVE  /\ pending_request'[r].needed_acks = Cardinality(Waiting(r)')
                 /\ \A q \in Proc \ {r} :
                       /\ \A x, y \in AcksFrom(r, q)' : x = y
                       /\ RequestTo(r, q)' \in Traffic' => AcksFrom(r, q)' = {}
      BY <1>0, <1>4, <1>5, <1>6, <1>7, <2>1 DEF AcksExact
    <2>2. ASSUME NEW n \in Traffic'
          PROVE  /\ net'[n] = 1 /\ Active(Owner(n))'
                 /\ pending_request'[Owner(n)].addr = n.addr
      <3>1. /\ Owner(n) \in Proc /\ Owner(n) # p /\ Active(Owner(n)) /\ net[n] = 1
            /\ pending_request[Owner(n)].addr = n.addr
        BY <1>0, <1>2, <1>5, TrafficOwned DEF AcksExact, Owner
      <3>2. QED
        BY <1>4, <3>1
    <2>3. QED
      BY <2>1, <2>2 DEF AcksExact, Owner
  <1>13. TableOwnership'
    <2>1. \A i, j \in Slot : i # j /\ table'[i] # FreeEntry => table'[i].addr # table'[j].addr
      <3>1. ASSUME NEW i \in Slot, table[i] # FreeEntry
            PROVE  table[i].addr # FreeEntry.addr
        BY <1>0, <3>1, EntryOwned, ProtocolAssumption DEF FreeEntry, NoAddr
      <3>2. QED
        BY <1>0, <1>4, <3>1 DEF TableOwnership
    <2>2. ASSUME NEW i \in Slot, table'[i] # FreeEntry
          PROVE  /\ Active(table[i].requester)'
                 /\ pending_request'[table[i].requester].tag = i
                 /\ table'[i] = table[i]
      <3>1. i # tag /\ table'[i] = table[i]
        BY <1>4, <2>2
      <3>2. /\ table[i].requester \in Proc /\ Active(table[i].requester)
            /\ pending_request[table[i].requester].tag = i
        BY <1>0, <2>2, <3>1, EntryOwned DEF TableOwnership
      <3>3. QED
        BY <1>4, <3>1, <3>2
    <2>3. ASSUME NEW r \in Proc, Active(r)'
          PROVE  /\ pending_request'[r].tag \in Slot
                 /\ table'[pending_request'[r].tag] =
                       [addr |-> pending_request'[r].addr, requester |-> r]
      <3>1. r # p /\ Active(r) /\ pending_request'[r] = pending_request[r]
        BY <1>4, <2>3
      <3>2. /\ pending_request[r].tag \in Slot
            /\ table[pending_request[r].tag] =
                  [addr |-> pending_request[r].addr, requester |-> r]
            /\ table[tag] = [addr |-> a, requester |-> p]
        BY <1>0, <1>1, <3>1 DEF TableOwnership
      <3>3. QED
        BY <1>4, <3>1, <3>2
    <2>4. QED
      BY <2>1, <2>2, <2>3 DEF TableOwnership
  <1>14. WriteReachesHolders' /\ RequestReachesSupplier'
    <2>1. ASSUME NEW r \in Proc, Active(r)', NEW q \in Proc \ {r}
          PROVE  /\ r # p /\ Active(r) /\ pending_request'[r] = pending_request[r]
                 /\ RequestTo(r, q)' = RequestTo(r, q)
                 /\ line'[q][pending_request[r].addr].valid =>
                       line[q][pending_request[r].addr].valid
                 /\ line'[q][pending_request[r].addr].most_recent =>
                       line[q][pending_request[r].addr].most_recent
      BY <1>4, <1>6, <1>8, <1>10, <2>1
    <2>2. QED
      BY <1>5, <2>1 DEF IInv, WriteReachesHolders, RequestReachesSupplier
  <1>15. ReadReachesHolders'
    <2>1. ASSUME NEW r \in Proc, Active(r)', NEW q \in Proc \ {r}
          PROVE  /\ r # p /\ Active(r) /\ pending_request'[r] = pending_request[r]
                 /\ RequestTo(r, q)' = RequestTo(r, q)
                 /\ AcksFrom(r, q)' = AcksFrom(r, q)
                 /\ line'[q][pending_request[r].addr].valid =>
                       line[q][pending_request[r].addr].valid
                 /\ Exclusive(q, pending_request[r].addr)' =>
                       Exclusive(q, pending_request[r].addr)
      <3>1. r # p /\ Active(r) /\ pending_request'[r] = pending_request[r]
        BY <1>4, <2>1
      <3>2. pending_request[r].addr \in Addr /\ pending_request[r].addr # a
        BY <1>8, <3>1
      <3>3. Exclusive(q, pending_request[r].addr)' => Exclusive(q, pending_request[r].addr)
        BY <1>10, <3>1, <3>2 DEF Exclusive
      <3>4. QED
        BY <1>6, <1>10, <3>1, <3>2, <3>3
    <2>2. ASSUME NEW r \in Proc, Active(r)', NEW q \in Proc \ {r}, SharedReported(r, q)
          PROVE  SharedReported(r, q)'
      BY <2>1, <2>2 DEF SharedReported
    <2>3. QED
      BY <1>5, <2>1, <2>2 DEF IInv, ReadReachesHolders
  <1>16. MigrationMovesTheBlock'
    <2>1. ASSUME NEW r \in Proc, Active(r)'
          PROVE  /\ Active(r) /\ pending_request'[r] = pending_request[r]
                 /\ \A q \in Proc : line'[q][pending_request[r].addr].valid =>
                                       line[q][pending_request[r].addr].valid
      BY <1>4, <1>8, <1>10, <2>1
    <2>2. QED
      BY <1>5, <2>1 DEF IInv, MigrationMovesTheBlock
  <1>17. LinesNormal'
    BY <1>0, <1>3, <1>9 DEF LinesNormal, Installs
  <1>18. AssertsHold'
    <2>1. ASSUME NEW r \in Proc
          PROVE  /\ coherence_request_pending'[r] <=> pending_request'[r].type # "none"
                 /\ pending_reissue'[r] => pending_request'[r].type # "none"
      BY <1>0, <1>3, <1>4 DEF AssertsHold, TypeOK
    <2>2. ASSUME NEW r \in Proc, NEW b \in Addr
          PROVE  /\ line'[r][b].valid <=> line'[r][b].state # "INVALID"
                 /\ line'[r][b].state \in {"MIGRATORY_CLEAN", "MIGRATORY_DIRTY"} => do_mig
                 /\ pending_request'[r].type = "busRdX" /\ pending_request'[r].addr = b
                       => line'[r][b].state \in {"INVALID", "SHARED", "SHARED2"}
                 /\ pending_request'[r].type = "busRd" /\ pending_request'[r].addr = b
                       => line'[r][b].state = "INVALID"
      <3>1. CASE r = p /\ b = a
        BY <1>3, <1>4, <3>1 DEF Installs, MayInstall
      <3>2. CASE r = p /\ b # a
        BY <1>0, <1>4, <1>9, <3>2 DEF AssertsHold, NoLine
      <3>3. CASE r # p
        <4>1. line'[r][b] = line[r][b]
          BY <1>3, <3>3 DEF Installs
        <4>2. QED
          BY <1>0, <1>4, <3>3, <4>1 DEF AssertsHold
      <3>4. QED
        BY <3>1, <3>2, <3>3
    <2>3. QED
      BY <2>1, <2>2 DEF AssertsHold
  <1>19. DirectoryCovers'
    <2>1. ASSUME UsesDirectory, NEW r \in Proc, NEW b \in Addr, line'[r][b].valid
          PROVE  r \in directory'[b]
      <3>1. CASE r = p /\ b = a
        BY <2>1, <3>1 DEF MayInstall
      <3>2. CASE r # p \/ b # a
        BY <1>10, <2>1, <3>2 DEF MayInstall, IInv, DirectoryCovers
      <3>3. QED
        BY <3>1, <3>2
    <2>2. QED
      BY <2>1 DEF DirectoryCovers, UsesDirectory
  <1>20. SingleWriter' /\ OneSupplier'
    <2>1. Exclusive(p, a)' <=>
             s \in {"EXCLUSIVE", "DIRTY", "MIGRATORY_CLEAN", "MIGRATORY_DIRTY"}
      BY <1>3 DEF Installs, Exclusive
    <2>2. QED
      BY <1>3, <1>10, <2>1
         DEF IInv, SingleWriter, OneSupplier, MayInstall, Installs
  <1>21. QED
    BY <1>11, <1>12, <1>13, <1>14, <1>15, <1>16, <1>17, <1>18, <1>19, <1>20 DEF IInv

\* A completed read: who still holds the block has given up the right to write
\* and has said so, unless the block is moved.
LEMMA ReadMayInstall ==
    ASSUME IInv, NEW p \in Proc, CompleteRead(p),
           NEW a \in Addr, a = pending_request[p].addr
    PROVE  MayInstall(p, a, read_state(pending_request[p].shared,
                                       pending_request[p].migratory))
  <1> DEFINE r == pending_request[p]
             s == read_state(r.shared, r.migratory)
  <1>0. /\ TypeOK /\ TrafficShape /\ AcksExact
    BY DEF IInv
  <1>1. Active(p) /\ r.needed_acks = 0 /\ r.type = "busRd" /\ a \in Addr
    BY DEF CompleteRead, Completed, Active
  <1>2. \A q \in Proc : q # p => AcksFrom(p, q) = {} /\ RequestTo(p, q) \notin Traffic
    BY <1>0, <1>1, QuietAfter
  <1>3. \A q \in Proc : q # p /\ line[q][a].valid =>
           ~Exclusive(q, a) /\ r.shared
    BY <1>1, <1>2 DEF IInv, ReadReachesHolders, SharedReported
  <1>4. \A q \in Proc : q # p => ~line[q][a].most_recent
    BY <1>1, <1>2 DEF IInv, RequestReachesSupplier
  <1>5. \A q \in Proc : Exclusive(q, a) => line[q][a].valid
    BY DEF IInv, AssertsHold, Exclusive
  <1>6. r.migratory => \A q \in Proc : ~line[q][a].valid
    BY <1>1 DEF IInv, MigrationMovesTheBlock
  <1>7. /\ s \in {"MIGRATORY_CLEAN", "SHARED", "EXCLUSIVE"}
        /\ s = "MIGRATORY_CLEAN" => r.migratory /\ do_mig
        /\ s = "EXCLUSIVE" => ~r.shared
    BY DEF read_state
  <1>8. ASSUME UsesDirectory
        PROVE  /\ p \in directory'[a]
               /\ \A q \in Proc : line[q][a].valid => q \in directory'[a]
               /\ \A b \in Addr : b # a => directory'[b] = directory[b]
    <2>1. directory' = [directory EXCEPT ![a] = @ \cup {p}]
      BY <1>8 DEF CompleteRead, add_to_directory
    <2>2. /\ directory'[a] = directory[a] \cup {p}
          /\ \A b \in Addr : b # a => directory'[b] = directory[b]
      BY <1>0, <2>1 DEF TypeOK
    <2>3. QED
      BY <1>8, <2>2 DEF IInv, DirectoryCovers
  <1> HIDE DEF s
  <1>9. MayInstall(p, a, s)
    BY <1>3, <1>4, <1>5, <1>6, <1>7, <1>8 DEF MayInstall
  <1>10. QED
    BY <1>9 DEF s

\* A completed write: nobody else holds the block.
LEMMA WriteMayInstall ==
    ASSUME IInv, NEW p \in Proc, CompleteWrite(p),
           NEW a \in Addr, a = pending_request[p].addr, NEW own \in CohState,
           own = IF Found(p, a) THEN line[p][a].state ELSE "INVALID"
    PROVE  MayInstall(p, a, write_state(own, pending_request[p].migratory))
  <1> DEFINE r == pending_request[p]
             s == write_state(own, r.migratory)
  <1>0. /\ TypeOK /\ TrafficShape /\ AcksExact
    BY DEF IInv
  <1>1. Active(p) /\ r.needed_acks = 0 /\ r.type = "busRdX"
    BY DEF CompleteWrite, Completed, Active
  <1>2. \A q \in Proc : q # p => AcksFrom(p, q) = {} /\ RequestTo(p, q) \notin Traffic
    BY <1>0, <1>1, QuietAfter
  <1>3. \A q \in Proc : q # p => ~line[q][a].valid
    BY <1>1, <1>2 DEF IInv, WriteReachesHolders
  <1>4. \A q \in Proc : q # p => ~line[q][a].most_recent
    BY <1>1, <1>2 DEF IInv, RequestReachesSupplier
  <1>5. \A q \in Proc : Exclusive(q, a) => line[q][a].valid
    BY DEF IInv, AssertsHold, Exclusive
  <1>6. own \in {"INVALID", "SHARED", "SHARED2"}
    BY <1>1 DEF IInv, AssertsHold
  <1>7. /\ s \in {"DIRTY", "MIGRATORY_DIRTY"}
        /\ s = "MIGRATORY_DIRTY" => do_mig
    BY <1>6 DEF write_state
  <1>8. ASSUME UsesDirectory
        PROVE  /\ p \in directory'[a]
               /\ \A q \in Proc : line[q][a].valid => q \in directory'[a]
               /\ \A b \in Addr : b # a => directory'[b] = directory[b]
    <2>1. directory' = [directory EXCEPT ![a] = {p}]
      BY <1>8 DEF CompleteWrite, set_new_directory
    <2>2. /\ directory'[a] = {p}
          /\ \A b \in Addr : b # a => directory'[b] = directory[b]
      BY <1>0, <2>1 DEF TypeOK
    <2>3. QED
      BY <1>3, <2>2
  <1> HIDE DEF s
  <1>9. MayInstall(p, a, s)
    BY <1>3, <1>4, <1>5, <1>7, <1>8 DEF MayInstall
  <1>10. QED
    BY <1>9 DEF s

-----------------------------------------------------------------------------
\* read() and write(), called on a miss or to issue a request again

\* Both outcomes preserve the invariant.
LEMMA IssueStep ==
    ASSUME IInv, TypeOK', NEW p \in Proc, NEW a \in Addr,
           NEW t \in {"busRd", "busRdX"}, Issue(p, t, a), ~Active(p),
           UNCHANGED <<line, directory>>,
           coherence_request_pending'[p],
           \A r \in Proc : r # p =>
              coherence_request_pending'[r] = coherence_request_pending[r],
           t = "busRd" => line[p][a].state = "INVALID",
           t = "busRdX" => line[p][a].state \in {"INVALID", "SHARED", "SHARED2"}
    PROVE  IInv'
  <1>0. /\ TypeOK /\ TrafficShape /\ AcksExact /\ LinesNormal /\ AssertsHold
    BY DEF IInv
  <1>1. NewRequest(p, t, a) /\ (Postponed(p) \/ Sent(p, t, a))
    BY <1>0, IssueEffect
  <1>2. LinesNormal'
    BY <1>0 DEF LinesNormal
  <1>3. AssertsHold'
    <2>1. ASSUME NEW r \in Proc
          PROVE  /\ coherence_request_pending'[r] <=> pending_request'[r].type # "none"
                 /\ pending_reissue'[r] => pending_request'[r].type # "none"
      <3>1. CASE r = p
        BY <1>1, <3>1 DEF NewRequest
      <3>2. CASE r # p
        BY <1>0, <1>1, <3>2 DEF NewRequest, AssertsHold
      <3>3. QED
        BY <3>1, <3>2
    <2>2. ASSUME NEW r \in Proc, NEW b \in Addr
          PROVE  /\ pending_request'[r].type = "busRdX" /\ pending_request'[r].addr = b
                       => line[r][b].state \in {"INVALID", "SHARED", "SHARED2"}
                 /\ pending_request'[r].type = "busRd" /\ pending_request'[r].addr = b
                       => line[r][b].state = "INVALID"
      <3>1. CASE r = p
        BY <1>1, <3>1 DEF NewRequest
      <3>2. CASE r # p
        BY <1>0, <1>1, <3>2 DEF NewRequest, AssertsHold
      <3>3. QED
        BY <3>1, <3>2
    <2>3. QED
      BY <1>0, <2>1, <2>2 DEF AssertsHold
  <1>4. CASE Postponed(p)
    <2>1. SameActive
      BY <1>1, <1>4 DEF NewRequest, Postponed, SameActive, Active
    <2>2. SameTraffic
      BY <1>4 DEF Postponed, SameTraffic, Traffic
    <2>3. SameRights
      BY DEF SameRights, Exclusive
    <2>4. TrafficShape'
      <3>1. ASSUME NEW n \in BagToSet(net), n.type \in {"busRd", "busRdX"}, n.receiver # MEM
            PROVE  n.type = pending_request'[n.sender].type
        <4>1. n \in Traffic
          BY <3>1 DEF Traffic
        <4>2. n.sender \in Proc /\ Active(n.sender) /\ n.type = pending_request[n.sender].type
          BY <1>0, <3>1, <4>1, RequestKnown
        <4>3. QED
          BY <2>1, <4>2 DEF SameActive
      <3>2. QED
        BY <1>0, <1>4, <3>1 DEF TrafficShape, Postponed
    <2>5. QED
      BY <1>2, <1>3, <1>4, <2>1, <2>2, <2>3, <2>4, FrameStep DEF Postponed
  <1>5. CASE Sent(p, t, a)
    BY <1>1, <1>2, <1>3, <1>5, SentStep
  <1>6. QED
    BY <1>1, <1>4, <1>5

-----------------------------------------------------------------------------
\* The memory's step, a received block and a hit change no request, no right
\* and no traffic.

SameRequests ==
    \A r \in Proc :
        /\ pending_request'[r].type = pending_request[r].type
        /\ pending_request'[r].addr = pending_request[r].addr
        /\ pending_request'[r].tag = pending_request[r].tag
        /\ pending_request'[r].needed_acks = pending_request[r].needed_acks
        /\ pending_request'[r].shared = pending_request[r].shared
        /\ pending_request'[r].migratory = pending_request[r].migratory

OnlyDataSent ==
    \A n \in BagToSet(net') :
        n \in BagToSet(net) \/ (n.type = "data" /\ n.sender # n.receiver)

\* They preserve the invariant.
LEMMA QuietStep ==
    ASSUME IInv, TypeOK', SameTraffic, SameRights, LinesNormal', AssertsHold',
           OnlyDataSent, SameRequests,
           UNCHANGED <<pending_reissue, table, directory>>
    PROVE  IInv'
  <1>1. SameActive
    BY DEF SameActive, Active, SameRequests
  <1>2. TrafficShape'
    <2>1. TypeOK /\ TrafficShape /\ AcksExact
      BY DEF IInv
    <2>2. ASSUME NEW n \in BagToSet(net'), n.type \in {"busRd", "busRdX"}, n.receiver # MEM
          PROVE  n.type = pending_request'[n.sender].type
      <3>1. n \in Traffic
        BY <2>2 DEF Traffic, OnlyDataSent
      <3>2. QED
        BY <2>1, <2>2, <3>1, RequestKnown DEF SameRequests
    <2>3. QED
      BY <2>1, <2>2 DEF TrafficShape, OnlyDataSent
  <1>3. QED
    BY <1>1, <1>2, FrameStep

\* Steps of hits and turns that touch nothing the invariant is about.
LEMMA UnchangedStep ==
    ASSUME IInv, TypeOK',
           UNCHANGED <<line, net, requestVars, directory, coherence_request_pending>>
    PROVE  IInv'
  <1>1. SameTraffic /\ SameRights /\ SameRequests /\ OnlyDataSent
    BY DEF SameTraffic, SameRights, Traffic, Exclusive, SameRequests, OnlyDataSent,
           requestVars
  <1>2. LinesNormal' /\ AssertsHold'
    BY DEF IInv, LinesNormal, AssertsHold, requestVars
  <1>3. QED
    BY <1>1, <1>2, QuietStep DEF requestVars

\* The silent upgrade: the line was exclusive before and is after.
LEMMA UpgradeStep ==
    ASSUME IInv, TypeOK', NEW p \in Proc, NEW a \in Addr, WriteUpgrade(p, a)
    PROVE  IInv'
  <1> DEFINE l == line[p][a]
             new == [l EXCEPT !.state = rw_upgrade_state(l.state)]
  <1>0. /\ TypeOK /\ LinesNormal /\ AssertsHold
        /\ l.valid /\ l.state \in {"EXCLUSIVE", "MIGRATORY_CLEAN"}
        /\ ~coherence_request_pending[p] /\ l \in Line
        /\ UNCHANGED <<net, pending_request, pending_reissue, table, directory,
                       coherence_request_pending>>
    BY DEF IInv, WriteUpgrade, TakeMemop, CacheTurn, Found, rw_upgrade, StartHit,
           requestVars, TypeOK
  <1>1. /\ new.valid = l.valid /\ new.most_recent = l.most_recent
        /\ new.state \in {"DIRTY", "MIGRATORY_DIRTY"}
        /\ new.state = "MIGRATORY_DIRTY" => l.state = "MIGRATORY_CLEAN"
    BY <1>0 DEF rw_upgrade_state, Line
  <1>2. line' = [line EXCEPT ![p] = [@ EXCEPT ![a] = new]]
    BY DEF WriteUpgrade
  <1> HIDE DEF new
  <1>3. /\ line'[p][a] = new
        /\ \A q \in Proc, b \in Addr : q # p \/ b # a => line'[q][b] = line[q][b]
    BY <1>0, <1>2 DEF TypeOK
  <1>4. SameTraffic /\ SameRequests /\ OnlyDataSent
    BY <1>0 DEF SameTraffic, Traffic, SameRequests, OnlyDataSent
  <1>5. SameRights
    BY <1>0, <1>1, <1>3 DEF SameRights, Exclusive
  <1>6. LinesNormal'
    BY <1>0, <1>1, <1>3 DEF LinesNormal
  <1>7. AssertsHold'
    <2>1. pending_request[p].type = "none"
      BY <1>0 DEF AssertsHold
    <2>2. QED
      <3>1. ASSUME NEW r \in Proc, NEW b \in Addr
            PROVE  /\ line'[r][b].valid <=> line'[r][b].state # "INVALID"
                   /\ line'[r][b].state \in {"MIGRATORY_CLEAN", "MIGRATORY_DIRTY"} => do_mig
                   /\ pending_request[r].type = "busRdX" /\ pending_request[r].addr = b
                         => line'[r][b].state \in {"INVALID", "SHARED", "SHARED2"}
                   /\ pending_request[r].type = "busRd" /\ pending_request[r].addr = b
                         => line'[r][b].state = "INVALID"
        <4>1. CASE r = p /\ b = a
          BY <1>0, <1>1, <1>3, <2>1, <4>1 DEF AssertsHold
        <4>2. CASE r # p \/ b # a
          BY <1>0, <1>3, <4>2 DEF AssertsHold
        <4>3. QED
          BY <4>1, <4>2
      <3>2. QED
        BY <1>0, <3>1 DEF AssertsHold
  <1>8. QED
    BY <1>0, <1>4, <1>5, <1>6, <1>7, QuietStep

\* Every step of a cache preserves the invariant.
LEMMA CacheStep ==
    ASSUME IInv, TypeOK', NEW p \in Proc, CacheEvent(p)
    PROVE  IInv'
  <1>0. TypeOK /\ AssertsHold
    BY DEF IInv
  <1>1. ASSUME NEW a \in Addr, NEW t \in {"busRd", "busRdX"}, CacheTurn(p),
               UNCHANGED line, Miss(p, t, a),
               t = "busRd" => line[p][a].state = "INVALID",
               t = "busRdX" => line[p][a].state \in {"INVALID", "SHARED", "SHARED2"}
        PROVE  IInv'
    <2>1. ~Active(p)
      BY <1>0, <1>1 DEF CacheTurn, AssertsHold, Active
    <2>2. /\ coherence_request_pending'[p]
          /\ \A r \in Proc : r # p =>
                coherence_request_pending'[r] = coherence_request_pending[r]
      BY <1>0, <1>1 DEF Miss, TypeOK
    <2>3. QED
      BY <1>1, <2>1, <2>2, IssueStep DEF Miss
  <1>2. ASSUME NEW a \in Addr, ReadMiss(p, a) PROVE IInv'
    <2>1. line[p][a].state = "INVALID"
      BY <1>0, <1>2 DEF ReadMiss, Found, can_read, AssertsHold
    <2>2. QED
      BY <1>1, <1>2, <2>1 DEF ReadMiss, TakeMemop, Miss
  <1>3. ASSUME NEW a \in Addr, WriteMiss(p, a) PROVE IInv'
    <2>1. line[p][a].state \in CohState
      BY <1>0 DEF TypeOK, Line
    <2>2. line[p][a].state \in {"INVALID", "SHARED", "SHARED2"}
      BY <1>0, <1>3, <2>1
         DEF WriteMiss, Found, can_write, rw_upgrade, AssertsHold, CohState
    <2>3. QED
      BY <1>1, <1>3, <2>2 DEF WriteMiss, TakeMemop, Miss
  <1>4. CASE Idle(p)
    BY <1>4, UnchangedStep DEF Idle
  <1>5. ASSUME NEW a \in Addr, ReadHit(p, a) \/ WriteHit(p, a) PROVE IInv'
    BY <1>5, UnchangedStep DEF ReadHit, WriteHit, StartHit
  <1>6. QED
    BY <1>2, <1>3, <1>4, <1>5, UpgradeStep DEF CacheEvent

\* A block is received.
LEMMA DataStep ==
    ASSUME IInv, TypeOK', NEW p \in Proc, NEW m \in BagToSet(net), RecvData(p, m)
    PROVE  IInv'
  <1>0. TypeOK /\ LinesNormal /\ AssertsHold
    BY DEF IInv
  <1>1. m \notin Traffic
    BY DEF RecvData, Receive, Traffic
  <1>2. SameTraffic /\ OnlyDataSent
    BY <1>0, <1>1, TrafficUntouched DEF RecvData, OnlyDataSent
  <1>3. UNCHANGED <<line, coherence_request_pending, pending_reissue, table, directory>>
    BY DEF RecvData, cacheVars
  <1>4. SameRequests
    BY <1>0, RecvDataEffect DEF SameRequests
  <1>5. SameRights /\ LinesNormal' /\ AssertsHold'
    BY <1>0, <1>3, <1>4 DEF SameRights, Exclusive, LinesNormal, AssertsHold, SameRequests
  <1>6. QED
    BY <1>2, <1>3, <1>4, <1>5, QuietStep

\* The memory receives a message or answers.
LEMMA MemoryStep ==
    ASSUME IInv, TypeOK', MemoryEvent
    PROVE  IInv'
  <1>0. TypeOK /\ AcksExact /\ LinesNormal /\ AssertsHold
    BY DEF IInv
  <1>1. ASSUME UNCHANGED <<line, cacheVars, requestVars, directory>>, SameTraffic,
               OnlyDataSent
        PROVE  IInv'
    <2>1. SameRights /\ LinesNormal' /\ AssertsHold' /\ SameRequests
      BY <1>0, <1>1
         DEF SameRights, Exclusive, LinesNormal, AssertsHold, SameRequests,
             cacheVars, requestVars
    <2>2. QED
      BY <1>1, <2>1, QuietStep DEF requestVars
  <1>2. ASSUME NEW m \in BagToSet(net), MemReceive(m) PROVE IInv'
    <2>1. m \notin Traffic
      BY <1>2 DEF MemReceive, Traffic
    <2>2. SameTraffic /\ OnlyDataSent
      BY <1>0, <1>2, <2>1, TrafficUntouched DEF MemReceive, OnlyDataSent
    <2>3. QED
      BY <1>1, <1>2, <2>2 DEF MemReceive
  <1>3. ASSUME NEW a \in Addr, MemAnswer(a) PROVE IInv'
    <2>1. PICK out : out = {Data(MEM, memory[a], a)} /\ Send(out)
      BY <1>3 DEF MemAnswer
    <2>2. \A n \in out : n.type = "data" /\ n.sender # n.receiver
      BY <1>0, <1>3, <2>1, ProtocolAssumption DEF MemAnswer, Data, TypeOK
    <2>3. TrafficOf(out) = {}
      BY <2>2 DEF TrafficOf
    <2>4. /\ Traffic' = Traffic
          /\ \A m \in Traffic' : net'[m] = 1
          /\ BagToSet(net') = BagToSet(net) \cup out
      BY <1>0, <2>1, <2>3, TrafficSend
    <2>5. SameTraffic /\ OnlyDataSent
      BY <1>0, <2>2, <2>4 DEF SameTraffic, AcksExact, OnlyDataSent
    <2>6. QED
      BY <1>1, <1>3, <2>5 DEF MemAnswer
  <1>4. QED
    BY <1>2, <1>3 DEF MemoryEvent

\* Every outcome of handle_pending_request preserves the invariant.
LEMMA HandlePendingStep ==
    ASSUME IInv, TypeOK', NEW p \in Proc, HandlePendingRequest(p)
    PROVE  IInv'
  <1> DEFINE r == pending_request[p]
  <1>0. TypeOK /\ AssertsHold
    BY DEF IInv
  <1>1. r.type # "none" => r.addr \in Addr /\ r.type \in {"busRd", "busRdX"}
    BY <1>0 DEF TypeOK, PendingRequest
  <1>2. CASE Reissue(p)
    <2>1. /\ pending_reissue[p] /\ r.type # "none" /\ coherence_request_pending[p]
          /\ Issue(p, r.type, r.addr)
          /\ UNCHANGED <<line, coherence_request_pending, directory>>
      BY <1>0, <1>2 DEF Reissue, MustReissue, AssertsHold
    <2>2. ~Active(p)
      BY <2>1 DEF Active
    <2>3. /\ r.type = "busRd" => line[p][r.addr].state = "INVALID"
          /\ r.type = "busRdX" =>
                line[p][r.addr].state \in {"INVALID", "SHARED", "SHARED2"}
      BY <1>0, <1>1, <2>1 DEF AssertsHold
    <2>4. QED
      BY <1>1, <2>1, <2>2, <2>3, IssueStep
  <1>3. CASE CompleteRead(p)
    <2>1. PICK a \in Addr : a = r.addr
      BY <1>1, <1>3 DEF CompleteRead
    <2>2. PICK s \in CohState : s = read_state(r.shared, r.migratory)
      BY <1>0, StatesTyped DEF TypeOK, PendingRequest
    <2>3. Completed(p) /\ complete(p, a, s) /\ Retire(p) /\ net' = net
      BY <1>3, <2>1, <2>2 DEF CompleteRead
    <2>4. MayInstall(p, a, s)
      BY <1>3, <2>1, <2>2, ReadMayInstall
    <2>5. QED
      BY <2>1, <2>3, <2>4, CompleteStep
  <1>4. CASE CompleteWrite(p)
    <2>1. PICK a \in Addr : a = r.addr
      BY <1>1, <1>4 DEF CompleteWrite
    <2>2. PICK own \in CohState :
             own = IF Found(p, a) THEN line[p][a].state ELSE "INVALID"
      BY <1>0 DEF TypeOK, Line, CohState
    <2>3. PICK s \in CohState : s = write_state(own, r.migratory)
      BY <1>0, StatesTyped DEF TypeOK, PendingRequest
    <2>4. Completed(p) /\ complete(p, a, s) /\ Retire(p) /\ net' = net
      BY <1>4, <2>1, <2>2, <2>3 DEF CompleteWrite
    <2>5. MayInstall(p, a, s)
      BY <1>4, <2>1, <2>2, <2>3, WriteMayInstall
    <2>6. QED
      BY <2>1, <2>4, <2>5, CompleteStep
  <1>5. CASE NothingToDo(p)
    BY <1>5, UnchangedStep DEF NothingToDo
  <1>6. QED
    BY <1>2, <1>3, <1>4, <1>5 DEF HandlePendingRequest

-----------------------------------------------------------------------------
\* IInv is inductive

\* The invariant holds initially.
LEMMA IInvInit == Init => IInv
  <1> SUFFICES ASSUME Init PROVE IInv
    OBVIOUS
  <1>1. TypeOK
    BY TypeInit
  <1>2. Traffic = {} /\ BagToSet(net) = {}
    BY DEF Init, EmptyBag, SetToBag, BagToSet, Traffic
  <1>3. /\ \A p \in Proc, a \in Addr : line[p][a] = NoLine
        /\ \A p \in Proc, a \in Addr : ~Exclusive(p, a)
        /\ \A p \in Proc : /\ ~Active(p)
                           /\ pending_request[p] = NoRequest
                           /\ ~pending_reissue[p] /\ ~coherence_request_pending[p]
        /\ \A i \in Slot : table[i] = FreeEntry
    BY DEF Init, NoLine, NoRequest, Exclusive, Active
  <1>4. LinesNormal /\ TrafficShape /\ DirectoryCovers /\ SingleWriter /\ OneSupplier
    BY <1>2, <1>3 DEF LinesNormal, TrafficShape, DirectoryCovers, SingleWriter,
       OneSupplier, NoLine
  <1>5. AssertsHold
    BY <1>3, ProtocolAssumption DEF AssertsHold, NoLine, NoRequest
  <1>6. TableOwnership /\ AcksExact
    BY <1>2, <1>3 DEF TableOwnership, AcksExact
  <1>7. /\ WriteReachesHolders /\ ReadReachesHolders /\ RequestReachesSupplier
        /\ MigrationMovesTheBlock
    BY <1>3 DEF WriteReachesHolders, ReadReachesHolders, RequestReachesSupplier,
       MigrationMovesTheBlock
  <1>8. QED
    BY <1>1, <1>4, <1>5, <1>6, <1>7 DEF IInv

\* Every step preserves it.
LEMMA IInvStep == IInv /\ [Next]_vars => IInv'
  <1> SUFFICES ASSUME IInv, [Next]_vars PROVE IInv'
    OBVIOUS
  <1>0. TypeOK /\ TypeOK'
    <2>1. TypeOK /\ ReissueHasRequest
      BY DEF IInv, AssertsHold, ReissueHasRequest
    <2>2. QED
      BY <2>1, TypeStep
  <1>1. ASSUME NEW p \in Proc, NEW m \in BagToSet(net), RecvBusRd(p, m) \/ RecvBusRdX(p, m)
        PROVE  IInv'
    <2>1. /\ m \in Traffic /\ m.type \in {"busRd", "busRdX"} /\ m.receiver = p
          /\ UNCHANGED <<coherence_request_pending, requestVars, directory>>
      BY <1>1, ProtocolAssumption
         DEF RecvBusRd, RecvBusRdX, Receive, Traffic, cacheVars
    <2>2. PICK flags \in FlagWord :
             /\ flags \cap FLAG_TRANSMIT = {}
             /\ Exchange(m, Answer(p, m, flags)) /\ GivesUp(p, m, flags)
      BY <1>1, <2>1, RecvBusRdAnswers, RecvBusRdXAnswers
    <2>3. QED
      BY <1>0, <2>1, <2>2, AnswerStep
  <1>2. ASSUME NEW p \in Proc, HandleIncomming(p) PROVE IInv'
    BY <1>0, <1>1, <1>2, AckStep, DataStep DEF HandleIncomming, Recv
  <1>3. CASE UNCHANGED vars
    BY <1>0, <1>3, UnchangedStep DEF vars, requestVars
  <1>4. QED
    BY <1>0, <1>2, <1>3, CacheStep, HandlePendingStep, MemoryStep DEF Next

-----------------------------------------------------------------------------
\* The safety properties of the protocol

\* IInv holds in every reachable state.
THEOREM InvariantCorrect == Spec => []IInv
  BY IInvInit, IInvStep, PTL DEF Spec

\* A cache that may write a block is the only one that has a copy of it, for
\* any number of processors and blocks, on every interconnect, with and without
\* --mig: the protocol is coherent although nobody tells the directory of an
\* eviction and the directory may have lost track of the sharers.
THEOREM SingleWriterCorrect == Spec => []SingleWriter
  <1>1. IInv => SingleWriter
    BY DEF IInv
  <1>2. QED
    BY <1>1, InvariantCorrect, PTL

\* At most one cache answers a request with the block, and one that may write it
\* does.
THEOREM OneSupplierCorrect == Spec => []OneSupplier
  <1>1. IInv => OneSupplier
    BY DEF IInv
  <1>2. QED
    BY <1>1, InvariantCorrect, PTL

\* The directory names every cache that holds a block: the assertion of
\* check_directory.
THEOREM DirectoryCorrect == Spec => []DirectoryCovers
  <1>1. IInv => DirectoryCovers
    BY DEF IInv
  <1>2. QED
    BY <1>1, InvariantCorrect, PTL

\* needed_acks is the number of acknowledgements still to come: it never wraps.
THEOREM AcksCorrect == Spec => []AcksExact
  <1>1. IInv => AcksExact
    BY DEF IInv
  <1>2. QED
    BY <1>1, InvariantCorrect, PTL

\* An entry of the request table is deleted by the request that entered it, and
\* no block has two.
THEOREM TableCorrect == Spec => []TableOwnership
  <1>1. IInv => TableOwnership
    BY DEF IInv
  <1>2. QED
    BY <1>1, InvariantCorrect, PTL

\* A read that is answered as migratory leaves no other copy of the block.
THEOREM MigrationCorrect == Spec => []MigrationMovesTheBlock
  <1>1. IInv => MigrationMovesTheBlock
    BY DEF IInv
  <1>2. QED
    BY <1>1, InvariantCorrect, PTL

\* No assert(false) of the manager is reached.
THEOREM AssertsCorrect == Spec => []AssertsHold
  <1>1. IInv => AssertsHold
    BY DEF IInv
  <1>2. QED
    BY <1>1, InvariantCorrect, PTL

=============================================================================
