---------------------------- MODULE NetworkProofs ----------------------------
(***************************************************************************)
(* Proofs about the links, the ring and the mesh, for any number of nodes  *)
(* and any traffic.                                                        *)
(***************************************************************************)
EXTENDS Network, SequenceTheorems, FiniteSetTheorems, WellFoundedInduction, TLAPS

-----------------------------------------------------------------------------
\* The networks whose router always finds a node, and one nearer to the receiver.
AlwaysRoutes == Interconnect \in {"crossbar", "ring", "mesh"}

\* What holds of a message m on link l there: on the ring the link joins neighbours,
\* and the message approaches its receiver (the crossbar's links do not tell the
\* direction).
HopOK(l, m, flipped) ==
    LET dst  == place(m.receiver, m.addr)
        to   == Exit(l, flipped)
        from == Exit(l, ~flipped)
    IN  /\ Neighbours(l)
        /\ Interconnect # "crossbar" /\ from # dst => distance(to, dst) < distance(from, dst)

\* What holds of the queues s of link l.
LinkOK(l, s) ==
    /\ s \in Sub
    /\ s.delay > 0 => s.incomming # <<>>
    /\ Len(s.flip) = IF UsesFlip THEN Len(s.incomming) ELSE 0
    /\ AlwaysRoutes =>
          \A i \in 1 .. Len(s.incomming) :
              HopOK(l, s.incomming[i], UsesFlip /\ s.flip[i])

AllLinksOK(net) ==
    /\ net = [l \in Link |-> net[l]]
    /\ \A l \in Link : LinkOK(l, net[l])

\* The inductive invariant.
LinkInv ==
    /\ AllLinksOK(interconnects)
    /\ sent \in 0 .. MaxMessages
    /\ AlwaysRoutes => ~aborted

-----------------------------------------------------------------------------
\* The nodes of a link are nodes: only the omega network has other places.
LEMMA PlaceIsNode ==
  ASSUME Interconnect # "omega"
  PROVE  Place = Node
BY DEF Place, Switch

\* Where a message goes in the end is a node.
LEMMA PlaceOfReceiver ==
  ASSUME ParametersOK, NEW r \in Receiver, NEW a \in Addr
  PROVE  place(r, a) \in Node
<1>1. a \in Nat /\ nproc \in Nat
  BY DEF ParametersOK, RoutingParametersOK
<1>2. get_addr_proc(a) \in Node
  BY <1>1, SMT DEF get_addr_proc, Node
<1>3. CASE numa
  BY <1>1, <1>2, <1>3 DEF place, Receiver, MEM, Node
<1>4. CASE ~numa
  BY <1>1, <1>4 DEF place, Receiver, MEM, Node
<1> QED
  BY <1>3, <1>4

\* Ring::next takes a neighbour, and one on a shortest way to the receiver.
LEMMA RingNeighbour ==
  ASSUME ParametersOK, NEW n \in Node, NEW dst \in Node, NEW sz
  PROVE  /\ ring_next(n, dst, sz) \in Node
         /\ difference(n, ring_next(n, dst, sz)) \in {1, nproc}
BY DEF ParametersOK, RoutingParametersOK, ring_next, left, right, difference, Node

LEMMA RingApproaches ==
  ASSUME ParametersOK, NEW n \in Node, NEW dst \in Node, NEW sz, n # dst
  PROVE  around(ring_next(n, dst, sz), dst, nproc + 1) < around(n, dst, nproc + 1)
<1> DEFINE L == left_distance(n, dst)
           R == right_distance(n, dst)
<1>0. nproc \in Nat \ {0} /\ n \in 0 .. nproc /\ dst \in 0 .. nproc
  BY DEF ParametersOK, RoutingParametersOK, Node
<1>1. L \in Nat /\ R \in Nat /\ L + R = nproc + 1 /\ L > 0 /\ R > 0
  BY <1>0 DEF left_distance, right_distance
<1>2. around(n, dst, nproc + 1) = IF L < R THEN L ELSE R
  BY <1>0 DEF left_distance, right_distance, around, smaller, difference
<1>3. around(left(n), dst, nproc + 1) = IF L - 1 < R + 1 THEN L - 1 ELSE R + 1
  BY <1>0 DEF left_distance, right_distance, around, smaller, difference, left
<1>4. around(right(n), dst, nproc + 1) = IF L + 1 < R - 1 THEN L + 1 ELSE R - 1
  BY <1>0 DEF left_distance, right_distance, around, smaller, difference, right
<1>5. CASE left(n) = dst
  <2>1. L = 1
    BY <1>0, <1>5 DEF left, left_distance
  <2>2. ring_next(n, dst, sz) = left(n)
    BY <1>5 DEF ring_next
  <2> QED
    BY <1>1, <1>2, <1>3, <2>1, <2>2
<1>6. CASE left(n) # dst /\ right(n) = dst
  <2>1. R = 1
    BY <1>0, <1>6 DEF right, right_distance
  <2>2. ring_next(n, dst, sz) = right(n)
    BY <1>6 DEF ring_next
  <2> QED
    BY <1>1, <1>2, <1>4, <2>1, <2>2
<1>7. CASE left(n) # dst /\ right(n) # dst
  <2>1. \/ ring_next(n, dst, sz) = left(n) /\ L <= R
        \/ ring_next(n, dst, sz) = right(n) /\ L >= R
    BY <1>1, <1>7 DEF ring_next
  <2> QED
    BY <1>1, <1>2, <1>3, <1>4, <2>1
<1> QED
  BY <1>5, <1>6, <1>7

LEMMA RingDistance ==
  ASSUME Interconnect = "ring", NEW n, NEW dst
  PROVE  distance(n, dst) = around(n, dst, nproc + 1)
BY DEF distance

LEMMA RingHop ==
  ASSUME Interconnect = "ring", NEW net, NEW n, NEW m
  PROVE  hop(net, n, m) = ring_next(n, place(m.receiver, m.addr), size(net))
BY DEF hop, next

-----------------------------------------------------------------------------
\* A set of numbers that is not empty has a least one.
LEMMA LeastIndex ==
    ASSUME NEW I \in SUBSET Nat, I # {}
    PROVE  \E i \in I : \A j \in I : i <= j
<1> DEFINE R == StrictSubsetOrdering(Nat)
           F == FiniteSubsetsOf(Nat)
           T == {0 .. n : n \in I}
<1>1. IsWellFoundedOn(R, F)
  BY FS_StrictSubsetOrderingWellFounded
<1>2. \A n \in Nat : 0 .. n \in F
  <2>1. \A n \in Nat : IsFiniteSet(0 .. n) /\ 0 .. n \subseteq Nat
    BY FS_Interval
  <2> QED
    BY <2>1 DEF FiniteSubsetsOf
<1>3. T # {} /\ T \subseteq F
  BY <1>2
<1> HIDE DEF R, F
<1>4. PICK t \in T : \A u \in T : ~(<<u, t>> \in R)
  BY <1>1, <1>3, WFMin
<1>5. PICK i \in I : t = 0 .. i
  OBVIOUS
<1>6. ASSUME NEW j \in I, j < i PROVE FALSE
  <2>1. /\ 0 .. j \subseteq 0 .. i /\ 0 .. j \subseteq Nat /\ 0 .. i \subseteq Nat
        /\ i \in 0 .. i /\ i \notin 0 .. j
    BY <1>6
  <2>2. <<0 .. j, 0 .. i>> \in R
    BY <2>1 DEF R, StrictSubsetOrdering
  <2> QED
    BY <1>4, <1>5, <2>2
<1> QED
  BY <1>6

\* The mesh.  A row has a length, whatever the number of nodes.
LEMMA LengthKnown ==
  ASSUME ParametersOK
  PROVE  length \in Nat \ {0}
<1> DEFINE I == {l \in Nat : nproc + 1 < (l + 1) * (l + 1)}
<1>1. nproc \in Nat \ {0}
  BY DEF ParametersOK, RoutingParametersOK
<1>2. nproc + 1 \in I
  <2>1. nproc + 1 + 1 \in Nat /\ (nproc + 1 + 1) * (nproc + 1 + 1) >= nproc + 1 + 1
    BY <1>1
  <2> QED
    BY <1>1, <2>1
<1>3. PICK i \in I : \A j \in I : i <= j
  BY <1>2, LeastIndex
<1>4. i \in Nat /\ i # 0 /\ nproc + 1 < (i + 1) * (i + 1)
  BY <1>1
<1>5. i * i <= nproc + 1
  <2>1. i - 1 \in Nat /\ i - 1 \notin I
    BY <1>3, <1>4
  <2>2. ~(nproc + 1 < (i - 1 + 1) * (i - 1 + 1))
    BY <2>1
  <2>3. i - 1 + 1 = i
    BY <1>4
  <2>4. i * i \in Nat /\ ~(nproc + 1 < i * i)
    BY <1>4, <2>2, <2>3
  <2> QED
    BY <1>1, <2>4
<1>6. i \in 1 .. nproc + 1
  <2>1. i <= i * i
    BY <1>4
  <2>2. i * i \in Nat
    BY <1>4
  <2> QED
    BY <1>1, <1>4, <1>5, <2>1, <2>2
<1>7. length \in 1 .. nproc + 1
  BY <1>4, <1>5, <1>6 DEF length
<1> QED
  BY <1>1, <1>7

\* A node is at one place of the grid, and a place is one number.
LEMMA NodeAt ==
  ASSUME length \in Nat \ {0}, NEW n \in Nat
  PROVE  /\ n = row(n) * length + col(n)
         /\ col(n) \in 0 .. length - 1 /\ row(n) \in Nat
<1>1. PICK L \in Nat \ {0} : L = length
  OBVIOUS
<1>2. /\ n = ((n \div L) * L) + (n % L)
      /\ n % L \in 0 .. L - 1 /\ n \div L \in Nat
  OBVIOUS
<1> QED
  BY <1>1, <1>2 DEF row, col

LEMMA AtNode ==
  ASSUME length \in Nat \ {0}, NEW x \in 0 .. length - 1, NEW y \in Nat
  PROVE  /\ at(x, y) = y * length + x /\ at(x, y) \in Nat
         /\ col(at(x, y)) = x /\ row(at(x, y)) = y
<1>1. PICK L \in Nat \ {0} : L = length
  OBVIOUS
<1>2. /\ ((y * L) + x) % L = x /\ ((y * L) + x) \div L = y
      /\ (y * L) + x \in Nat
  BY <1>1
<1> QED
  BY <1>1, <1>2 DEF at, row, col

\* Rows do not overlap.
LEMMA RowsApart ==
  ASSUME length \in Nat \ {0}, NEW a \in Nat, NEW b \in Nat, a < b
  PROVE  (a * length) + length <= b * length /\ a * length \in Nat /\ b * length \in Nat
<1>1. PICK L \in Nat \ {0} : L = length
  OBVIOUS
<1>2. (a * L) + L <= b * L /\ a * L \in Nat /\ b * L \in Nat
  OBVIOUS
<1> QED
  BY <1>1, <1>2

\* One step toward e brings c nearer to it and not beyond.
LEMMA TowardNearer ==
  ASSUME NEW c \in Nat, NEW e \in Nat
  PROVE  /\ toward(c, e) \in Nat
         /\ (toward(c, e) = c) <=> (c = e)
         /\ c < e => toward(c, e) = c + 1
         /\ c > e => toward(c, e) = c - 1
         /\ c # e => difference(toward(c, e), e) = difference(c, e) - 1
         /\ difference(c, e) \in Nat /\ (c # e => difference(c, e) > 0)
BY DEF toward, difference

\* Unless the message is to get there with this step, one of the two candidates
\* exists, also when the last row is not full: if the row is not the last one it is
\* full, and otherwise the other candidate is in the row before.
LEMMA CandidateExists ==
  ASSUME ParametersOK, NEW n \in Node, NEW dst \in Node,
         NEW x, x = toward(col(n), col(dst)), NEW y, y = toward(row(n), row(dst)),
         ~(x = col(dst) /\ y = row(dst))
  PROVE  \/ at(x, row(n)) # n /\ at(x, row(n)) \in Node
         \/ at(col(n), y) # n /\ at(col(n), y) \in Node
<1> DEFINE c == col(n)
           r == row(n)
           e == col(dst)
           g == row(dst)
<1>1. /\ n \in Nat /\ dst \in Nat /\ nproc \in Nat /\ n <= nproc /\ dst <= nproc
      /\ length \in Nat \ {0}
  BY LengthKnown DEF Node, ParametersOK, RoutingParametersOK
<1>2. /\ n = r * length + c /\ c \in 0 .. length - 1 /\ r \in Nat
      /\ dst = g * length + e /\ e \in 0 .. length - 1 /\ g \in Nat
  BY <1>1, NodeAt
<1>3. r * length \in Nat /\ g * length \in Nat
  BY <1>1, <1>2
<1> HIDE DEF c, r, e, g
<1>4. /\ x \in Nat /\ y \in Nat
      /\ (x = c) <=> (c = e)
      /\ (y = r) <=> (r = g)
      /\ c < e => x = c + 1
      /\ c > e => x = c - 1
      /\ r < g => y = r + 1
      /\ r > g => y = r - 1
  <2>1. c \in Nat /\ e \in Nat /\ r \in Nat /\ g \in Nat
    BY <1>1, <1>2
  <2>2. /\ toward(c, e) \in Nat
        /\ (toward(c, e) = c) <=> (c = e)
        /\ c < e => toward(c, e) = c + 1
        /\ c > e => toward(c, e) = c - 1
    BY <2>1, TowardNearer
  <2>3. /\ toward(r, g) \in Nat
        /\ (toward(r, g) = r) <=> (r = g)
        /\ r < g => toward(r, g) = r + 1
        /\ r > g => toward(r, g) = r - 1
    BY <2>1, TowardNearer
  <2>4. x = toward(c, e) /\ y = toward(r, g)
    BY DEF c, r, e, g
  <2> QED
    BY <2>2, <2>3, <2>4
<1>5. x \in 0 .. length - 1
  BY <1>1, <1>2, <1>4
<1>6. /\ at(x, r) = r * length + x
      /\ at(c, y) = y * length + c
      /\ at(c, y) \in Nat
  BY <1>1, <1>2, <1>4, <1>5, AtNode
<1>7. CASE r > g
  <2>1. y * length + length = r * length
    BY <1>1, <1>2, <1>4, <1>7
  <2>2. y * length \in Nat
    BY <1>1, <1>4
  <2>3. at(c, y) # n /\ at(c, y) \in Node
    BY <1>1, <1>2, <1>3, <1>6, <2>1, <2>2 DEF Node
  <2> QED
    BY <2>3 DEF c, r
<1>8. CASE r < g /\ c # e
  <2>1. r * length + length <= g * length
    BY <1>1, <1>2, <1>8, RowsApart
  <2>2. x # c
    BY <1>4, <1>8
  <2>3. at(x, r) # n /\ at(x, r) \in Node
    BY <1>1, <1>2, <1>3, <1>5, <1>6, <2>1, <2>2 DEF Node
  <2> QED
    BY <2>3 DEF c, r
<1>9. CASE r < g /\ c = e
  <2>1. y # g /\ y = r + 1
    BY <1>4, <1>9 DEF e, g
  <2>2. y * length + length <= g * length /\ y * length \in Nat
    BY <1>1, <1>2, <1>4, <1>9, <2>1, RowsApart
  <2>3. r * length + length <= y * length
    BY <1>1, <1>2, <1>4, <2>1, RowsApart
  <2>4. at(c, y) # n /\ at(c, y) \in Node
    BY <1>1, <1>2, <1>3, <1>6, <2>2, <2>3 DEF Node
  <2> QED
    BY <2>4 DEF c, r
<1>10. CASE r = g
  <2>1. y = g /\ x # e
    BY <1>4, <1>10 DEF e, g
  <2>2. x # c
    BY <1>4, <2>1
  <2>3. x < e \/ x < c
    BY <1>2, <1>4, <2>1
  <2>4. at(x, r) # n /\ at(x, r) \in Node
    BY <1>1, <1>2, <1>3, <1>5, <1>6, <1>10, <2>2, <2>3 DEF Node
  <2> QED
    BY <2>4 DEF c, r
<1> QED
  BY <1>2, <1>7, <1>8, <1>9, <1>10

\* So the router of the mesh finds a node, which is nearer to the destination,
\* whatever the queues are.
LEMMA MeshApproaches ==
  ASSUME ParametersOK, NEW n \in Node, NEW dst \in Node, NEW sz
  PROVE  LET to == mesh_next(n, dst, sz)
         IN  /\ to \in Node
             /\ n # dst => difference(col(to), col(dst)) + difference(row(to), row(dst))
                              < difference(col(n), col(dst)) + difference(row(n), row(dst))
<1> DEFINE x == toward(col(n), col(dst))
           y == toward(row(n), row(dst))
           h == at(x, row(n))
           v == at(col(n), y)
           to == mesh_next(n, dst, sz)
           far(m) == difference(col(m), col(dst)) + difference(row(m), row(dst))
<1>1. /\ n \in Nat /\ dst \in Nat /\ length \in Nat \ {0}
  BY LengthKnown DEF Node, ParametersOK, RoutingParametersOK
<1>2. /\ n = row(n) * length + col(n) /\ col(n) \in 0 .. length - 1 /\ row(n) \in Nat
      /\ dst = row(dst) * length + col(dst) /\ col(dst) \in 0 .. length - 1 /\ row(dst) \in Nat
  BY <1>1, NodeAt
<1>3. /\ x \in Nat /\ y \in Nat
      /\ (x = col(n)) <=> (col(n) = col(dst))
      /\ (y = row(n)) <=> (row(n) = row(dst))
      /\ col(n) # col(dst) => difference(x, col(dst)) = difference(col(n), col(dst)) - 1
      /\ row(n) # row(dst) => difference(y, row(dst)) = difference(row(n), row(dst)) - 1
      /\ difference(col(n), col(dst)) \in Nat /\ difference(row(n), row(dst)) \in Nat
      /\ col(n) # col(dst) => difference(col(n), col(dst)) > 0
      /\ row(n) # row(dst) => difference(row(n), row(dst)) > 0
  <2> DEFINE c == col(n)
             e == col(dst)
             r == row(n)
             g == row(dst)
  <2>1. c \in Nat /\ e \in Nat /\ r \in Nat /\ g \in Nat
    BY <1>1, <1>2
  <2> HIDE DEF c, e, r, g
  <2>2. x = toward(c, e) /\ y = toward(r, g)
    BY DEF c, e, r, g
  <2> HIDE DEF x, y
  <2>3. /\ x \in Nat /\ y \in Nat
        /\ (x = c) <=> (c = e)
        /\ (y = r) <=> (r = g)
        /\ c # e => difference(x, e) = difference(c, e) - 1
        /\ r # g => difference(y, g) = difference(r, g) - 1
        /\ difference(c, e) \in Nat /\ difference(r, g) \in Nat
        /\ c # e => difference(c, e) > 0
        /\ r # g => difference(r, g) > 0
    BY <2>1, <2>2, TowardNearer, ZenonT(60)
  <2> QED
    BY <2>3 DEF c, e, r, g
<1>4. x \in 0 .. length - 1
  <2>1. /\ col(n) < col(dst) => x = col(n) + 1
        /\ col(n) > col(dst) => x = col(n) - 1
        /\ col(n) = col(dst) => x = col(n)
    <3>1. col(n) \in Nat /\ col(dst) \in Nat
      BY <1>1, <1>2
    <3> QED
      BY <3>1, TowardNearer
  <2> QED
    BY <1>1, <1>2, <1>3, <2>1
<1>5. /\ h = row(n) * length + x /\ col(h) = x /\ row(h) = row(n)
      /\ v = y * length + col(n) /\ col(v) = col(n) /\ row(v) = y
  BY <1>1, <1>2, <1>3, <1>4, AtNode
<1>6. h # n => x # col(n)
  BY <1>2, <1>5
<1>7. v # n => y # row(n)
  BY <1>2, <1>5
<1>8. \/ x = col(dst) /\ y = row(dst) /\ to = dst
      \/ ~(x = col(dst) /\ y = row(dst)) /\ to = h /\ h # n /\ h \in Node
      \/ ~(x = col(dst) /\ y = row(dst)) /\ to = v /\ v # n /\ v \in Node
  <2>1. ~(x = col(dst) /\ y = row(dst)) => (h # n /\ h \in Node) \/ (v # n /\ v \in Node)
    BY CandidateExists
  <2>2. to = IF x = col(dst) /\ y = row(dst) THEN dst
             ELSE IF ~(h # n /\ h \in Node) /\ ~(v # n /\ v \in Node) THEN NoNode
             ELSE IF ~(v # n /\ v \in Node) \/ ((h # n /\ h \in Node) /\ sz[h] < sz[v])
                  THEN h ELSE v
    BY DEF mesh_next, grid_next
  <2> HIDE DEF x, y, h, v, to
  <2> QED
    BY <2>1, <2>2
<1> HIDE DEF x, y, h, v, to
<1>9. CASE x = col(dst) /\ y = row(dst) /\ to = dst
  <2>1. difference(col(dst), col(dst)) = 0 /\ difference(row(dst), row(dst)) = 0
    BY <1>2 DEF difference
  <2>2. n # dst => col(n) # col(dst) \/ row(n) # row(dst)
    BY <1>2
  <2> QED
    BY <1>3, <1>9, <2>1, <2>2 DEF to
<1>10. CASE to = h /\ h # n /\ h \in Node
  BY <1>3, <1>5, <1>6, <1>10 DEF to
<1>11. CASE to = v /\ v # n /\ v \in Node
  BY <1>3, <1>5, <1>7, <1>11 DEF to
<1> QED
  BY <1>8, <1>9, <1>10, <1>11

-----------------------------------------------------------------------------
\* Pushing a message and its direction keeps a link's queues in step.
LEMMA PushKeeps ==
  ASSUME NEW l \in Link, NEW s, LinkOK(l, s), NEW m \in Msg, NEW f \in BOOLEAN,
         AlwaysRoutes => HopOK(l, m, UsesFlip /\ f)
  PROVE  LinkOK(l, pushed(s, m, f))
<1> DEFINE t == pushed(s, m, f)
<1>1. s \in Sub /\ s.incomming \in Seq(Msg) /\ s.flip \in Seq(BOOLEAN)
  BY DEF LinkOK, Sub
<1>2. /\ t.incomming = Append(s.incomming, m)
      /\ t.delay = s.delay
      /\ t.flip = IF UsesFlip THEN Append(s.flip, f) ELSE s.flip
      /\ t = [incomming |-> t.incomming, delay |-> t.delay, flip |-> t.flip]
  BY DEF pushed
<1>3. t \in Sub
  <2>1. t.incomming \in Seq(Msg) /\ t.delay \in 0 .. BUS_DLY
    BY <1>1, <1>2 DEF LinkOK, Sub
  <2>2. t.flip \in Seq(BOOLEAN)
    <3>1. Append(s.flip, f) \in Seq(BOOLEAN)
      BY <1>1, AppendProperties
    <3> QED
      BY <1>1, <1>2, <3>1
  <2> HIDE DEF t
  <2> QED
    BY <1>2, <2>1, <2>2, Zenon DEF Sub
<1>4. t.incomming # <<>> /\ Len(t.incomming) = Len(s.incomming) + 1
  BY <1>1, <1>2
<1>5. Len(t.flip) = IF UsesFlip THEN Len(t.incomming) ELSE 0
  <2>1. Len(s.flip) = IF UsesFlip THEN Len(s.incomming) ELSE 0
    BY DEF LinkOK
  <2>2. CASE UsesFlip
    BY <1>1, <1>2, <1>4, <2>1, <2>2
  <2>3. CASE ~UsesFlip
    BY <1>1, <1>2, <2>1, <2>3
  <2> QED
    BY <2>2, <2>3
<1>6. ASSUME AlwaysRoutes, NEW i \in 1 .. Len(t.incomming)
      PROVE  HopOK(l, t.incomming[i], UsesFlip /\ t.flip[i])
  <2>1. CASE i = Len(s.incomming) + 1
    <3>1. t.incomming[i] = m
      BY <1>1, <1>2, <2>1
    <3>2. (UsesFlip /\ t.flip[i]) = (UsesFlip /\ f)
      <4>1. CASE UsesFlip
        <5>1. i = Len(s.flip) + 1
          BY <2>1, <4>1 DEF LinkOK
        <5>2. t.flip[i] = f
          BY <1>1, <1>2, <4>1, <5>1
        <5> QED
          BY <5>2
      <4> QED
        BY <4>1
    <3> HIDE DEF t
    <3> QED
      BY <1>6, <3>1, <3>2, Zenon
  <2>2. CASE i # Len(s.incomming) + 1
    <3>1. i \in 1 .. Len(s.incomming)
      BY <1>1, <1>4, <2>2
    <3>2. t.incomming[i] = s.incomming[i]
      BY <1>1, <1>2, <3>1
    <3>3. (UsesFlip /\ t.flip[i]) = (UsesFlip /\ s.flip[i])
      <4>1. CASE UsesFlip
        <5>1. i \in 1 .. Len(s.flip)
          BY <3>1, <4>1 DEF LinkOK
        <5>2. t.flip[i] = s.flip[i]
          BY <1>1, <1>2, <4>1, <5>1
        <5> QED
          BY <5>2
      <4> QED
        BY <4>1
    <3>4. HopOK(l, s.incomming[i], UsesFlip /\ s.flip[i])
      BY <1>6, <3>1 DEF LinkOK
    <3> HIDE DEF t
    <3> QED
      BY <3>2, <3>3, <3>4, Zenon
  <2> QED
    BY <2>1, <2>2
<1>7. LinkOK(l, t)
  <2> HIDE DEF t
  <2> QED
    BY <1>3, <1>4, <1>5, <1>6 DEF LinkOK
<1> QED
  BY <1>7

\* So does popping both when a message arrives.
LEMMA PopKeeps ==
  ASSUME ParametersOK, NEW l \in Link, NEW s, LinkOK(l, s), Interconnect # "omega",
         s.delay > 0,
         s.delay = 1 \/ (Interconnect \in {"ring", "omega"} /\ l[1] = l[2])
  PROVE  LinkOK(l, popped(s))
<1> DEFINE t == popped(s)
<1>1. /\ s \in Sub /\ s.incomming \in Seq(Msg) /\ s.flip \in Seq(BOOLEAN)
      /\ s.delay \in 0 .. BUS_DLY
  BY DEF LinkOK, Sub
<1>2. s.incomming # <<>>
  BY DEF LinkOK
<1>3. s.delay = 1
  <2>1. SUFFICES ASSUME Interconnect = "ring", l[1] = l[2] PROVE FALSE
    OBVIOUS
  <2>2. 1 \in 1 .. Len(s.incomming)
    BY <1>1, <1>2
  <2>3. Neighbours(l)
    BY <2>1, <2>2 DEF LinkOK, HopOK, AlwaysRoutes
  <2>4. l[1] \in Node /\ l[2] \in Node
    BY PlaceIsNode DEF Link
  <2> QED
    BY <2>1, <2>3, <2>4 DEF ParametersOK, RoutingParametersOK, Neighbours, difference, Node
<1>4. /\ t.incomming = Tail(s.incomming)
      /\ t.delay = s.delay - 1
      /\ t.flip = IF UsesFlip THEN Tail(s.flip) ELSE s.flip
      /\ t = [incomming |-> t.incomming, delay |-> t.delay, flip |-> t.flip]
  BY DEF popped
<1>5. t.delay = 0 /\ Len(t.incomming) = Len(s.incomming) - 1
      /\ t.incomming \in Seq(Msg)
  BY <1>1, <1>2, <1>3, <1>4
<1>6. Len(t.flip) = (IF UsesFlip THEN Len(t.incomming) ELSE 0) /\ t.flip \in Seq(BOOLEAN)
  <2>1. Len(s.flip) = IF UsesFlip THEN Len(s.incomming) ELSE 0
    BY DEF LinkOK
  <2>2. CASE UsesFlip
    <3>1. s.flip # <<>>
      BY <1>1, <1>2, <2>1, <2>2
    <3>2. t.flip = Tail(s.flip)
      BY <1>4, <2>2
    <3>3. Len(Tail(s.flip)) = Len(s.flip) - 1 /\ Tail(s.flip) \in Seq(BOOLEAN)
      BY <1>1, <3>1, HeadTailProperties
    <3> HIDE DEF t
    <3> QED
      BY <1>1, <1>5, <2>1, <2>2, <3>2, <3>3
  <2>3. CASE ~UsesFlip
    BY <1>1, <1>4, <2>1, <2>3
  <2> QED
    BY <2>2, <2>3
<1>7. t \in Sub
  <2>1. t.delay \in 0 .. BUS_DLY
    BY <1>5 DEF ParametersOK
  <2> HIDE DEF t
  <2> QED
    BY <1>4, <1>5, <1>6, <2>1, Zenon DEF Sub
<1>8. ASSUME AlwaysRoutes, NEW i \in 1 .. Len(t.incomming)
      PROVE  HopOK(l, t.incomming[i], UsesFlip /\ t.flip[i])
  <2>1. i + 1 \in 1 .. Len(s.incomming) /\ t.incomming[i] = s.incomming[i + 1]
    BY <1>1, <1>2, <1>4, <1>5
  <2>2. (UsesFlip /\ t.flip[i]) = (UsesFlip /\ s.flip[i + 1])
    <3>1. CASE UsesFlip
      <4>1. Len(s.flip) = Len(s.incomming)
        BY <3>1 DEF LinkOK
      <4>2. t.flip[i] = s.flip[i + 1]
        BY <1>1, <1>4, <1>5, <2>1, <3>1, <4>1
      <4> QED
        BY <4>2
    <3> QED
      BY <3>1
  <2>3. HopOK(l, s.incomming[i + 1], UsesFlip /\ s.flip[i + 1])
    BY <1>8, <2>1 DEF LinkOK
  <2> HIDE DEF t
  <2> QED
    BY <2>1, <2>2, <2>3, Zenon
<1>9. LinkOK(l, t)
  <2> HIDE DEF t
  <2> QED
    BY <1>5, <1>6, <1>7, <1>8 DEF LinkOK
<1> QED
  BY <1>9

\* The node a message goes to next.
LEMMA RouteOK ==
  ASSUME ParametersOK, AlwaysRoutes, NEW net, NEW n \in Node, NEW m \in Msg,
         NEW to, to = hop(net, n, m), NEW dst, dst = place(m.receiver, m.addr)
  PROVE  /\ to \in Node
         /\ Interconnect = "ring" => difference(n, to) \in {1, nproc}
         /\ Interconnect # "crossbar" /\ n # dst => distance(to, dst) < distance(n, dst)
<1>1. dst \in Node
  BY PlaceOfReceiver DEF Msg
<1>2. CASE Interconnect = "crossbar"
  <2>1. to = dst
    BY <1>2 DEF hop, next
  <2> QED
    BY <1>1, <1>2, <2>1
<1>3. CASE Interconnect = "ring"
  <2>1. to = ring_next(n, dst, size(net))
    BY <1>3, RingHop
  <2>2. to \in Node /\ difference(n, to) \in {1, nproc}
    BY <1>1, <2>1, RingNeighbour
  <2>3. n # dst => distance(to, dst) < distance(n, dst)
    BY <1>1, <1>3, <2>1, RingApproaches, RingDistance
  <2> QED
    BY <2>2, <2>3
<1>4. CASE Interconnect = "mesh"
  <2>1. to = mesh_next(n, dst, size(net))
    BY <1>4 DEF hop, next
  <2>2. \A k : distance(k, dst)
                 = difference(col(k), col(dst)) + difference(row(k), row(dst))
    BY <1>4 DEF distance
  <2>3. /\ to \in Node
        /\ n # dst => difference(col(to), col(dst)) + difference(row(to), row(dst))
                        < difference(col(n), col(dst)) + difference(row(n), row(dst))
    BY <1>1, <2>1, MeshApproaches
  <2>4. n # dst => distance(to, dst) < distance(n, dst)
    BY <2>2, <2>3
  <2> QED
    BY <1>4, <2>3, <2>4
<1> QED
  BY <1>2, <1>3, <1>4 DEF AlwaysRoutes

\* The hop a message at node n is sent on fulfils what LinkOK asks of it.
LEMMA HopIsOK ==
  ASSUME ParametersOK, AlwaysRoutes, NEW net, NEW n \in Node, NEW m \in Msg,
         NEW to, to = hop(net, n, m)
  PROVE  /\ to \in Node
         /\ HopOK(index(n, to), m, UsesFlip /\ to < n)
<1> DEFINE dst == place(m.receiver, m.addr)
           l   == index(n, to)
           f   == UsesFlip /\ to < n
<1>1. /\ to \in Node
      /\ Interconnect = "ring" => difference(n, to) \in {1, nproc}
      /\ Interconnect # "crossbar" /\ n # dst => distance(to, dst) < distance(n, dst)
  BY RouteOK
<1>2. n \in Int /\ to \in Int /\ nproc \in Nat
  BY <1>1 DEF ParametersOK, RoutingParametersOK, Node
<1>3. difference(n, to) = difference(to, n)
  BY <1>2 DEF difference
<1>4. CASE UsesFlip /\ to < n
  <2>1. l = <<to, n>>
    BY <1>2, <1>4 DEF index, UsesFlip
  <2>2. f
    BY <1>4
  <2>3. Exit(l, f) = to /\ Exit(l, ~f) = n
    BY <2>1, <2>2 DEF Exit
  <2>4. Neighbours(l)
    BY <1>1, <1>3, <2>1 DEF Neighbours
  <2> QED
    BY <1>1, <2>3, <2>4 DEF HopOK
<1>5. CASE ~(UsesFlip /\ to < n) /\ Interconnect # "crossbar"
  <2>1. l = <<n, to>>
    <3>1. unidirectional \/ ~(to < n)
      BY <1>5 DEF UsesFlip
    <3> QED
      BY <1>2, <3>1 DEF index
  <2>2. ~f
    BY <1>5
  <2>3. Exit(l, f) = to /\ Exit(l, ~f) = n
    BY <2>1, <2>2 DEF Exit
  <2>4. Neighbours(l)
    BY <1>1, <2>1 DEF Neighbours
  <2> QED
    BY <1>1, <2>3, <2>4 DEF HopOK
<1>6. CASE Interconnect = "crossbar"
  BY <1>1, <1>6 DEF HopOK, Neighbours
<1> QED
  BY <1>4, <1>5, <1>6

LEMMA ForwardKeeps ==
  ASSUME ParametersOK, NEW net, AllLinksOK(net), Interconnect # "omega",
         NEW n \in Node, NEW m \in Msg
  PROVE  /\ AllLinksOK(forwarded(net, n, m))
         /\ AlwaysRoutes => hop(net, n, m) # NoNode
<1> DEFINE to == hop(net, n, m)
           l  == index(n, to)
           f  == UsesFlip /\ to < n
<1>1. AlwaysRoutes => to \in Node /\ HopOK(l, m, f)
  BY HopIsOK
<1>2. AlwaysRoutes => to # NoNode
  BY <1>1 DEF ParametersOK, RoutingParametersOK, Node, NoNode
<1>3. CASE to = NoNode
  BY <1>2, <1>3 DEF forwarded
<1>4. CASE to # NoNode
  <2> DEFINE net2 == [net EXCEPT ![l] = pushed(@, m, to < n)]
  <2>1. forwarded(net, n, m) = net2
    BY <1>4 DEF forwarded
  <2>2. net2 = [k \in Link |-> net2[k]]
    BY DEF AllLinksOK
  <2>3. ASSUME NEW k \in Link PROVE LinkOK(k, net2[k])
    <3>1. LinkOK(k, net[k])
      BY DEF AllLinksOK
    <3>2. CASE k = l
      <4>1. net2[k] = pushed(net[k], m, to < n)
        BY <3>2 DEF AllLinksOK
      <4>2. (to < n) \in BOOLEAN
        OBVIOUS
      <4>3. AlwaysRoutes => HopOK(k, m, UsesFlip /\ (to < n))
        BY <1>1, <3>2
      <4> HIDE DEF to, l, f, net2
      <4>4. LinkOK(k, pushed(net[k], m, to < n))
        BY <3>1, <4>2, <4>3, PushKeeps
      <4> QED
        BY <4>1, <4>4
    <3>3. CASE k # l
      <4>1. net2[k] = net[k]
        BY <3>3 DEF AllLinksOK
      <4> QED
        BY <3>1, <4>1
    <3> QED
      BY <3>2, <3>3
  <2> HIDE DEF net2
  <2> QED
    BY <1>2, <2>1, <2>2, <2>3 DEF AllLinksOK
<1> QED
  BY <1>3, <1>4

-----------------------------------------------------------------------------
\* Changing the delay of a link that has a message, or that stays at 0.
LEMMA DelayKeeps ==
  ASSUME AllLinksOK(interconnects), NEW l \in Link, NEW d \in 0 .. BUS_DLY,
         d > 0 => interconnects[l].incomming # <<>>
  PROVE  AllLinksOK([interconnects EXCEPT ![l].delay = d])
<1> DEFINE net2 == [interconnects EXCEPT ![l].delay = d]
<1>1. net2 = [k \in Link |-> net2[k]]
  BY DEF AllLinksOK
<1>2. ASSUME NEW k \in Link PROVE LinkOK(k, net2[k])
  <2>1. LinkOK(k, interconnects[k])
    BY DEF AllLinksOK
  <2>2. CASE k # l
    <3>1. net2[k] = interconnects[k]
      BY <2>2 DEF AllLinksOK
    <3> QED
      BY <2>1, <3>1
  <2>3. CASE k = l
    <3> DEFINE s == interconnects[k]
               t == net2[k]
    <3>1. s \in Sub
      BY <2>1 DEF LinkOK
    <3>2. t = [s EXCEPT !.delay = d]
      BY <2>3 DEF AllLinksOK
    <3>3. t.incomming = s.incomming /\ t.flip = s.flip /\ t.delay = d /\ t \in Sub
      BY <3>1, <3>2 DEF Sub
    <3> HIDE DEF s, t
    <3>4. LinkOK(k, s)
      BY <2>1 DEF s
    <3>5. s = interconnects[l]
      BY <2>3 DEF s
    <3>6. LinkOK(k, t)
      BY <3>3, <3>4, <3>5 DEF LinkOK
    <3> QED
      BY <3>6 DEF t
  <2> QED
    BY <2>2, <2>3
<1> HIDE DEF net2
<1>3. AllLinksOK(net2)
  BY <1>1, <1>2 DEF AllLinksOK
<1> QED
  BY <1>3 DEF net2

LEMMA InitLinks ==
  ASSUME ParametersOK
  PROVE  Init => LinkInv
<1> SUFFICES ASSUME Init PROVE LinkInv
  OBVIOUS
<1>1. EmptyLink \in Sub /\ EmptyLink.incomming = <<>> /\ EmptyLink.flip = <<>>
      /\ EmptyLink.delay = 0
  BY DEF ParametersOK, EmptyLink, Sub
<1>2. ASSUME NEW l \in Link PROVE LinkOK(l, EmptyLink)
  BY <1>1 DEF LinkOK
<1> HIDE DEF EmptyLink
<1>3. AllLinksOK(interconnects)
  BY <1>2 DEF Init, AllLinksOK
<1> QED
  BY <1>3 DEF ParametersOK, Init, LinkInv

LEMMA SendKeeps ==
  ASSUME ParametersOK, LinkInv, Interconnect # "omega",
         NEW s \in Receiver, NEW r \in Receiver, NEW a \in Addr, Send(s, r, a)
  PROVE  LinkInv'
<1> DEFINE m == [id |-> sent + 1, sender |-> s, receiver |-> r, addr |-> a]
           n == place(s, a)
<1>1. m \in Msg /\ n \in Node
  <2>1. sent + 1 \in 1 .. MaxMessages
    BY DEF ParametersOK, LinkInv, Send
  <2> QED
    BY <2>1, PlaceOfReceiver DEF Msg
<1>2. /\ interconnects' = forwarded(interconnects, n, m)
      /\ aborted' = (hop(interconnects, n, m) = NoNode)
      /\ sent' \in 0 .. MaxMessages
  BY DEF ParametersOK, Send, LinkInv
<1> HIDE DEF m, n
<1>3. AllLinksOK(interconnects)
  BY DEF LinkInv
<1>4. AllLinksOK(forwarded(interconnects, n, m))
      /\ (AlwaysRoutes => hop(interconnects, n, m) # NoNode)
  BY <1>1, <1>3, ForwardKeeps
<1>5. AllLinksOK(interconnects')
  BY <1>2, <1>4
<1> QED
  BY <1>2, <1>4, <1>5 DEF LinkInv, AllLinksOK

\* Taking the message that arrives off the queues of its link.
LEMMA PopLinks ==
  ASSUME ParametersOK, NEW l \in Link, Interconnect # "omega", AllLinksOK(interconnects),
         interconnects[l].delay > 0,
         \/ interconnects[l].delay = 1
         \/ Interconnect \in {"ring", "omega"} /\ l[1] = l[2]
  PROVE  AllLinksOK([interconnects EXCEPT ![l] = popped(@)])
<1> DEFINE s == interconnects[l]
           net == [interconnects EXCEPT ![l] = popped(@)]
<1>1. LinkOK(l, s)
  BY DEF AllLinksOK
<1>2. s.delay > 0 /\ (s.delay = 1 \/ (Interconnect \in {"ring", "omega"} /\ l[1] = l[2]))
  OBVIOUS
<1>3. net = [k \in Link |-> net[k]]
  BY DEF AllLinksOK
<1>4. ASSUME NEW k \in Link PROVE LinkOK(k, net[k])
  <2>1. CASE k = l
    <3>1. net[k] = popped(s)
      BY <2>1 DEF AllLinksOK
    <3> HIDE DEF net, s
    <3>2. LinkOK(l, popped(s))
      BY <1>1, <1>2, PopKeeps
    <3> QED
      BY <2>1, <3>1, <3>2
  <2>2. CASE k # l
    <3>1. net[k] = interconnects[k]
      BY <2>2 DEF AllLinksOK
    <3>2. LinkOK(k, interconnects[k])
      BY DEF AllLinksOK
    <3> QED
      BY <3>1, <3>2
  <2> QED
    BY <2>1, <2>2
<1> HIDE DEF net
<1>5. AllLinksOK(net)
  BY <1>3, <1>4 DEF AllLinksOK
<1> QED
  BY <1>5 DEF net

LEMMA ArriveKeeps ==
  ASSUME ParametersOK, LinkInv, Interconnect # "omega", NEW l \in Link, Arrive(l), ~aborted
  PROVE  AllLinksOK(interconnects') /\ (AlwaysRoutes => ~aborted')
<1> DEFINE s == interconnects[l]
           m == Head(s.incomming)
           f == UsesFlip /\ Head(s.flip)
           n == Exit(l, f)
           net == [interconnects EXCEPT ![l] = popped(@)]
<1>1. AllLinksOK(interconnects) /\ LinkOK(l, s)
  BY DEF LinkInv, AllLinksOK
<1>2. s.delay > 0 /\ (s.delay = 1 \/ (Interconnect \in {"ring", "omega"} /\ l[1] = l[2]))
  BY DEF Arrive, Expires
<1>3. s.incomming # <<>> /\ s.incomming \in Seq(Msg)
  BY <1>1, <1>2 DEF LinkOK, Sub
<1>4. m \in Msg /\ m = s.incomming[1] /\ 1 \in 1 .. Len(s.incomming)
  BY <1>3
<1>5. n \in Node
  BY PlaceIsNode DEF Exit, Link
<1>6. AlwaysRoutes => Neighbours(l)
  BY <1>1, <1>4 DEF LinkOK, HopOK
<1>7. AllLinksOK(net)
  BY <1>1, <1>2, PopLinks
<1>8. \/ interconnects' = net /\ aborted' = ~Neighbours(l)
      \/ /\ interconnects' = forwarded(net, n, m)
         /\ aborted' = (~Neighbours(l) \/ hop(net, n, m) = NoNode)
  BY DEF Arrive
<1> HIDE DEF s, m, f, n, net
<1>9. CASE interconnects' = net /\ aborted' = ~Neighbours(l)
  BY <1>6, <1>7, <1>9
<1>10. CASE /\ interconnects' = forwarded(net, n, m)
            /\ aborted' = (~Neighbours(l) \/ hop(net, n, m) = NoNode)
  <2>1. AllLinksOK(forwarded(net, n, m))
        /\ (AlwaysRoutes => hop(net, n, m) # NoNode)
    BY <1>4, <1>5, <1>7, ForwardKeeps
  <2> QED
    BY <1>6, <1>10, <2>1
<1> QED
  BY <1>8, <1>9, <1>10

LEMMA StepKeeps ==
  ASSUME ParametersOK, LinkInv, [Next]_vars, Interconnect # "omega"
  PROVE  LinkInv'
<1>1. ASSUME NEW s \in Receiver, NEW r \in Receiver, NEW a \in Addr, Send(s, r, a)
      PROVE  LinkInv'
  BY <1>1, SendKeeps
<1>2. CASE EventBegins
  BY <1>2 DEF EventBegins, LinkInv, AllLinksOK
<1>3. ASSUME NEW l \in Link, LinkEvent(l) PROVE LinkInv'
  <2>1. sent' \in 0 .. MaxMessages /\ ~aborted
    BY <1>3 DEF LinkEvent, LinkInv
  <2>2. AllLinksOK(interconnects) /\ LinkOK(l, interconnects[l])
    BY DEF LinkInv, AllLinksOK
  <2>3. interconnects[l].delay \in 0 .. BUS_DLY
    BY <2>2 DEF LinkOK, Sub
  <2>4. CASE Start(l)
    <3> DEFINE d == IF interconnects[l].incomming = <<>> THEN 0 ELSE BUS_DLY
    <3>1. d \in 0 .. BUS_DLY /\ (d > 0 => interconnects[l].incomming # <<>>)
      BY DEF ParametersOK
    <3>2. interconnects' = [interconnects EXCEPT ![l].delay = d] /\ aborted' = aborted
      BY <2>4 DEF Start
    <3> HIDE DEF d
    <3>3. AllLinksOK(interconnects')
      BY <2>2, <3>1, <3>2, DelayKeeps
    <3> QED
      BY <2>1, <3>2, <3>3 DEF LinkInv, AllLinksOK
  <2>5. CASE Tick(l)
    <3> DEFINE d == interconnects[l].delay - 1
    <3>1. d \in 0 .. BUS_DLY /\ (d > 0 => interconnects[l].incomming # <<>>)
      BY <2>2, <2>3, <2>5 DEF ParametersOK, Tick, LinkOK
    <3>2. interconnects' = [interconnects EXCEPT ![l].delay = d] /\ aborted' = aborted
      BY <2>5 DEF Tick
    <3> HIDE DEF d
    <3>3. AllLinksOK(interconnects')
      BY <2>2, <3>1, <3>2, DelayKeeps
    <3> QED
      BY <2>1, <3>2, <3>3 DEF LinkInv, AllLinksOK
  <2>6. CASE Arrive(l)
    BY <2>1, <2>6, ArriveKeeps DEF LinkInv, AllLinksOK
  <2> QED
    BY <1>3, <2>4, <2>5, <2>6 DEF LinkEvent
<1>4. CASE UNCHANGED vars
  BY <1>4 DEF vars, LinkInv, AllLinksOK
<1> QED
  BY <1>1, <1>2, <1>3, <1>4 DEF Next, Sending, Step

LEMMA LinkInvCorrect ==
  ASSUME ParametersOK, Interconnect # "omega"
  PROVE  Spec => []LinkInv
<1>1. LinkInv /\ [Next]_vars => LinkInv'
  BY StepKeeps
<1> QED
  BY <1>1, InitLinks, PTL DEF Spec

-----------------------------------------------------------------------------
\* Queues of messages: where a number is, when every number is at one place only, and
\* what appending to a queue and taking its head off do to that.
Holds(q, S, id) == \E s \in S : \E i \in 1 .. Len(q[s]) : q[s][i].id = id

Distinct(q, S) ==
    \A s, t \in S : \A i \in 1 .. Len(q[s]) : \A j \in 1 .. Len(q[t]) :
        q[s][i].id = q[t][j].id => s = t /\ i = j

Appended(q, s, m) == [q EXCEPT ![s] = Append(@, m)]

Beheaded(q, s) == [q EXCEPT ![s] = Tail(@)]

LEMMA AppendHolds ==
  ASSUME NEW S, NEW q \in [S -> Seq(Msg)], NEW s \in S, NEW m \in Msg,
         NEW p, p = Appended(q, s, m)
  PROVE  /\ p \in [S -> Seq(Msg)]
         /\ \A id : Holds(p, S, id) <=> Holds(q, S, id) \/ id = m.id
         /\ Distinct(q, S) /\ ~Holds(q, S, m.id) => Distinct(p, S)
<1>1. p \in [S -> Seq(Msg)]
  BY DEF Appended
<1>2. /\ \A t \in S : t # s => p[t] = q[t]
      /\ Len(p[s]) = Len(q[s]) + 1 /\ Len(q[s]) \in Nat
      /\ p[s][Len(q[s]) + 1] = m
      /\ \A i \in 1 .. Len(q[s]) : p[s][i] = q[s][i]
  BY DEF Appended
<1>3. ASSUME NEW id, Holds(p, S, id) PROVE Holds(q, S, id) \/ id = m.id
  <2>1. PICK t \in S : \E i \in 1 .. Len(p[t]) : p[t][i].id = id
    BY <1>3 DEF Holds
  <2>2. PICK i \in 1 .. Len(p[t]) : p[t][i].id = id
    BY <2>1
  <2>3. \/ t = s /\ i = Len(q[s]) + 1
        \/ i \in 1 .. Len(q[t]) /\ p[t][i] = q[t][i]
    BY <1>2
  <2> QED
    BY <1>2, <2>2, <2>3 DEF Holds
<1>4. ASSUME NEW id, Holds(q, S, id) \/ id = m.id PROVE Holds(p, S, id)
  <2>1. CASE id = m.id
    <3>1. Len(q[s]) + 1 \in 1 .. Len(p[s])
      BY <1>2
    <3> QED
      BY <1>2, <2>1, <3>1 DEF Holds
  <2>2. CASE Holds(q, S, id)
    <3>1. PICK t \in S : \E i \in 1 .. Len(q[t]) : q[t][i].id = id
      BY <2>2 DEF Holds
    <3>2. PICK i \in 1 .. Len(q[t]) : q[t][i].id = id
      BY <3>1
    <3>3. i \in 1 .. Len(p[t]) /\ p[t][i] = q[t][i]
      BY <1>2
    <3> QED
      BY <3>2, <3>3 DEF Holds
  <2> QED
    BY <1>4, <2>1, <2>2
<1>5. ASSUME Distinct(q, S), ~Holds(q, S, m.id),
             NEW a \in S, NEW b \in S, NEW i \in 1 .. Len(p[a]), NEW j \in 1 .. Len(p[b]),
             p[a][i].id = p[b][j].id
      PROVE  a = b /\ i = j
  <2>1. \/ a = s /\ i = Len(q[s]) + 1 /\ p[a][i] = m
        \/ i \in 1 .. Len(q[a]) /\ p[a][i] = q[a][i]
    BY <1>2, SMTT(60)
  <2>2. \/ b = s /\ j = Len(q[s]) + 1 /\ p[b][j] = m
        \/ j \in 1 .. Len(q[b]) /\ p[b][j] = q[b][j]
    BY <1>2
  <2>3. CASE i \in 1 .. Len(q[a]) /\ p[a][i] = q[a][i] /\ j \in 1 .. Len(q[b]) /\ p[b][j] = q[b][j]
    BY <1>5, <2>3 DEF Distinct
  <2>4. CASE a = s /\ i = Len(q[s]) + 1 /\ p[a][i] = m /\ j \in 1 .. Len(q[b]) /\ p[b][j] = q[b][j]
    BY <1>5, <2>4 DEF Holds
  <2>5. CASE b = s /\ j = Len(q[s]) + 1 /\ p[b][j] = m /\ i \in 1 .. Len(q[a]) /\ p[a][i] = q[a][i]
    BY <1>5, <2>5 DEF Holds
  <2> QED
    BY <2>1, <2>2, <2>3, <2>4, <2>5
<1>6. Distinct(q, S) /\ ~Holds(q, S, m.id) => Distinct(p, S)
  BY <1>5 DEF Distinct
<1> QED
  BY <1>1, <1>3, <1>4, <1>6

LEMMA TailHolds ==
  ASSUME NEW S, NEW q \in [S -> Seq(Msg)], NEW s \in S, q[s] # <<>>, Distinct(q, S),
         NEW p, p = Beheaded(q, s)
  PROVE  /\ p \in [S -> Seq(Msg)]
         /\ \A id : Holds(p, S, id) <=> Holds(q, S, id) /\ id # Head(q[s]).id
         /\ Distinct(p, S)
<1>1. q[s] \in Seq(Msg) /\ Tail(q[s]) \in Seq(Msg)
  OBVIOUS
<1>2. p \in [S -> Seq(Msg)]
  BY <1>1 DEF Beheaded
<1>3. /\ \A t \in S : t # s => p[t] = q[t]
      /\ Len(p[s]) = Len(q[s]) - 1 /\ Len(q[s]) \in Nat \ {0}
      /\ Head(q[s]) = q[s][1]
      /\ \A i \in 1 .. Len(p[s]) : p[s][i] = q[s][i + 1]
  BY <1>1 DEF Beheaded
<1> DEFINE from(t, i) == IF t = s THEN i + 1 ELSE i
<1>4. ASSUME NEW t \in S, NEW i \in 1 .. Len(p[t])
      PROVE  from(t, i) \in 1 .. Len(q[t]) /\ p[t][i] = q[t][from(t, i)]
             /\ (t = s => from(t, i) # 1)
  BY <1>3
<1>5. ASSUME NEW a \in S, NEW b \in S, NEW i \in 1 .. Len(p[a]), NEW j \in 1 .. Len(p[b]),
             p[a][i].id = p[b][j].id
      PROVE  a = b /\ i = j
  <2>1. /\ from(a, i) \in 1 .. Len(q[a]) /\ p[a][i] = q[a][from(a, i)]
        /\ from(b, j) \in 1 .. Len(q[b]) /\ p[b][j] = q[b][from(b, j)]
    BY <1>4
  <2> HIDE DEF from
  <2>2. a = b /\ from(a, i) = from(b, j)
    BY <1>5, <2>1 DEF Distinct
  <2> QED
    BY <2>2 DEF from
<1>6. Distinct(p, S)
  BY <1>5 DEF Distinct
<1>7. 1 \in 1 .. Len(q[s])
  BY <1>3
<1>8. ASSUME NEW id, Holds(p, S, id) PROVE Holds(q, S, id) /\ id # Head(q[s]).id
  <2>1. PICK t \in S : \E i \in 1 .. Len(p[t]) : p[t][i].id = id
    BY <1>8 DEF Holds
  <2>2. PICK i \in 1 .. Len(p[t]) : p[t][i].id = id
    BY <2>1
  <2>3. from(t, i) \in 1 .. Len(q[t]) /\ q[t][from(t, i)].id = id /\ (t = s => from(t, i) # 1)
    BY <1>4, <2>2
  <2> HIDE DEF from
  <2>4. Holds(q, S, id)
    BY <2>3 DEF Holds
  <2>5. id # q[s][1].id
    BY <1>7, <2>3 DEF Distinct
  <2> QED
    BY <1>3, <2>4, <2>5
<1>9. ASSUME NEW id, Holds(q, S, id), id # Head(q[s]).id PROVE Holds(p, S, id)
  <2>1. PICK t \in S : \E i \in 1 .. Len(q[t]) : q[t][i].id = id
    BY <1>9 DEF Holds
  <2>2. PICK i \in 1 .. Len(q[t]) : q[t][i].id = id
    BY <2>1
  <2>3. CASE t = s
    <3>1. i # 1
      BY <1>3, <1>9, <2>2, <2>3
    <3>2. i - 1 \in 1 .. Len(p[s]) /\ p[s][i - 1] = q[s][i - 1 + 1] /\ i - 1 + 1 = i
      BY <1>3, <2>3, <3>1
    <3> QED
      BY <2>2, <2>3, <3>2 DEF Holds
  <2>4. CASE t # s
    BY <1>3, <2>2, <2>4 DEF Holds
  <2> QED
    BY <2>3, <2>4
<1> QED
  BY <1>2, <1>6, <1>8, <1>9

\* So a queue of them is never longer than the bound on the messages sent.
LEMMA QueueBounded ==
  ASSUME MaxMessages \in Nat, NEW S, NEW q \in [S -> Seq(Msg)], Distinct(q, S), NEW s \in S
  PROVE  Len(q[s]) <= MaxMessages
<1> DEFINE f == [i \in 1 .. Len(q[s]) |-> q[s][i].id]
<1>1. q[s] \in Seq(Msg) /\ Len(q[s]) \in Nat
  OBVIOUS
<1>2. f \in [1 .. Len(q[s]) -> 1 .. MaxMessages]
  <2>1. \A i \in 1 .. Len(q[s]) : q[s][i] \in Msg
    BY <1>1
  <2> QED
    BY <2>1 DEF Msg
<1>3. \A i, j \in 1 .. Len(q[s]) : f[i] = f[j] => i = j
  BY DEF Distinct
<1>4. /\ IsFiniteSet(1 .. Len(q[s])) /\ Cardinality(1 .. Len(q[s])) = Len(q[s])
      /\ IsFiniteSet(1 .. MaxMessages) /\ Cardinality(1 .. MaxMessages) = MaxMessages
  <2>1. \A k \in Nat : IsFiniteSet(1 .. k) /\ Cardinality(1 .. k) = k
    <3>1. ASSUME NEW k \in Nat PROVE IsFiniteSet(1 .. k) /\ Cardinality(1 .. k) = k
      <4>1. /\ IsFiniteSet(1 .. k)
            /\ Cardinality(1 .. k) = IF 1 > k THEN 0 ELSE k - 1 + 1
        BY FS_Interval
      <4> QED
        BY <4>1
    <3> QED
      BY <3>1
  <2> QED
    BY <1>1, <2>1
<1> HIDE DEF f
<1>5. ~(MaxMessages < Len(q[s]))
  <2> SUFFICES ASSUME MaxMessages < Len(q[s]) PROVE FALSE
    OBVIOUS
  <2>1. Cardinality(1 .. MaxMessages) < Cardinality(1 .. Len(q[s]))
    BY <1>4
  <2>2. \E i, j \in 1 .. Len(q[s]) : i # j /\ f[i] = f[j]
    BY <1>2, <1>4, <2>1, FS_PigeonHole, Zenon
  <2> QED
    BY <1>3, <2>2
<1> QED
  BY <1>1, <1>5

-----------------------------------------------------------------------------
\* What the actions do to the queues of the links.
queues(net) == [l \in Link |-> net[l].incomming]

LEMMA QueuesKnown ==
  ASSUME NEW net, AllLinksOK(net)
  PROVE  queues(net) \in [Link -> Seq(Msg)]
BY DEF queues, AllLinksOK, LinkOK, Sub

\* But for the omega network the router finds a node, or on the torus none.
LEMMA HopIsNode ==
  ASSUME ParametersOK, Interconnect # "omega", NEW net, NEW n \in Node, NEW m \in Msg,
         hop(net, n, m) # NoNode
  PROVE  hop(net, n, m) \in Node
<1> DEFINE dst == place(m.receiver, m.addr)
<1>1. dst \in Node
  BY PlaceOfReceiver DEF Msg
<1>2. CASE AlwaysRoutes
  BY <1>2, RouteOK
<1>3. CASE ~AlwaysRoutes
  <2>1. Interconnect = "torus"
    BY <1>3 DEF ParametersOK, RoutingParametersOK, AlwaysRoutes
  <2>2. hop(net, n, m) = torus_next(n, dst, size(net))
    BY <2>1 DEF hop, next
  <2>3. \A x, y, sz : grid_next(n, dst, x, y, sz) \in Node \cup {NoNode}
    BY <1>1 DEF grid_next
  <2> QED
    BY <2>2, <2>3 DEF torus_next
<1> QED
  BY <1>2, <1>3

LEMMA ForwardQueues ==
  ASSUME ParametersOK, Interconnect # "omega", NEW net, AllLinksOK(net),
         NEW n \in Node, NEW m \in Msg, hop(net, n, m) # NoNode
  PROVE  \E l \in Link : queues(forwarded(net, n, m)) = Appended(queues(net), l, m)
<1> DEFINE to == hop(net, n, m)
           l  == index(n, to)
           net2 == [net EXCEPT ![l] = pushed(@, m, to < n)]
<1>1. to \in Node
  BY HopIsNode
<1>2. l \in Link
  BY <1>1 DEF index, Link, Place
<1>3. forwarded(net, n, m) = net2
  BY DEF forwarded
<1>4. ASSUME NEW k \in Link
      PROVE  net2[k].incomming = IF k = l THEN Append(net[k].incomming, m) ELSE net[k].incomming
  BY DEF AllLinksOK, pushed
<1> HIDE DEF to, l, net2
<1>5. queues(net2) = Appended(queues(net), l, m)
  BY <1>2, <1>4 DEF queues, Appended
<1> QED
  BY <1>2, <1>3, <1>5

LEMMA PopQueues ==
  ASSUME NEW net, AllLinksOK(net), NEW l \in Link
  PROVE  queues([net EXCEPT ![l] = popped(@)]) = Beheaded(queues(net), l)
<1> DEFINE net2 == [net EXCEPT ![l] = popped(@)]
<1>1. ASSUME NEW k \in Link
      PROVE  net2[k].incomming = IF k = l THEN Tail(net[k].incomming) ELSE net[k].incomming
  BY DEF AllLinksOK, popped
<1> HIDE DEF net2
<1>2. queues(net2) = Beheaded(queues(net), l)
  BY <1>1 DEF queues, Beheaded
<1> QED
  BY <1>2 DEF net2

LEMMA DelayQueues ==
  ASSUME NEW net, AllLinksOK(net), NEW l \in Link, NEW d
  PROVE  queues([net EXCEPT ![l].delay = d]) = queues(net)
<1> DEFINE net2 == [net EXCEPT ![l].delay = d]
<1>1. ASSUME NEW k \in Link PROVE net2[k].incomming = net[k].incomming
  <2>1. net[k] \in Sub
    BY DEF AllLinksOK, LinkOK
  <2> QED
    BY <2>1 DEF AllLinksOK, Sub
<1> HIDE DEF net2
<1>2. queues(net2) = queues(net)
  BY <1>1 DEF queues
<1> QED
  BY <1>2 DEF net2

-----------------------------------------------------------------------------
\* Where the messages are, if a router has not lost one: those that have been sent, and
\* no others, each at one place of one queue or handed to one receiver.
WhereOK(q, rec, n) ==
    /\ Distinct(q, Link) /\ Distinct(rec, Receiver)
    /\ \A id : Holds(q, Link, id) => ~Holds(rec, Receiver, id)
    /\ \A id : Holds(q, Link, id) \/ Holds(rec, Receiver, id) <=> id \in 1 .. n

OnceInv ==
    /\ LinkInv
    /\ received \in [Receiver -> Seq(Msg)]
    /\ \A r \in Receiver : \A i \in 1 .. Len(received[r]) : received[r][i].receiver = r
    /\ ~aborted => WhereOK(queues(interconnects), received, sent)

LEMMA SentIsNew ==
  ASSUME NEW q \in [Link -> Seq(Msg)], NEW rec, NEW n \in Nat, WhereOK(q, rec, n),
         NEW m \in Msg, m.id = n + 1,
         NEW l \in Link, NEW p, p = Appended(q, l, m)
  PROVE  WhereOK(p, rec, n + 1)
<1>1. m.id \notin 1 .. n
  OBVIOUS
<1>2. ~Holds(q, Link, m.id) /\ ~Holds(rec, Receiver, m.id)
  BY <1>1 DEF WhereOK
<1>3. Distinct(p, Link) /\ \A id : Holds(p, Link, id) <=> Holds(q, Link, id) \/ id = m.id
  <2>1. Distinct(q, Link)
    BY DEF WhereOK
  <2> QED
    BY <1>2, <2>1, AppendHolds
<1>4. \A id : id \in 1 .. n + 1 <=> id \in 1 .. n \/ id = m.id
  OBVIOUS
<1> QED
  BY <1>2, <1>3, <1>4 DEF WhereOK

LEMMA MovedIsSame ==
  ASSUME NEW q \in [Link -> Seq(Msg)], NEW rec, NEW n, WhereOK(q, rec, n),
         NEW l \in Link, q[l] # <<>>, NEW k \in Link,
         NEW p, p = Beheaded(q, l),
         NEW r, r = Appended(p, k, Head(q[l]))
  PROVE  WhereOK(r, rec, n)
<1> DEFINE m == Head(q[l])
<1>1. q[l] \in Seq(Msg)
  OBVIOUS
<1>2. m \in Msg /\ m = q[l][1] /\ 1 \in 1 .. Len(q[l])
  BY <1>1
<1>3. Holds(q, Link, m.id)
  BY <1>2 DEF Holds
<1> HIDE DEF m
<1>4. /\ p \in [Link -> Seq(Msg)] /\ Distinct(p, Link)
      /\ \A id : Holds(p, Link, id) <=> Holds(q, Link, id) /\ id # m.id
  <2>1. Distinct(q, Link)
    BY DEF WhereOK
  <2> QED
    BY <2>1, TailHolds DEF m
<1>5. r = Appended(p, k, m)
  BY DEF m
<1>6. /\ Distinct(r, Link)
      /\ \A id : Holds(r, Link, id) <=> Holds(p, Link, id) \/ id = m.id
  <2>1. ~Holds(p, Link, m.id)
    BY <1>4
  <2> QED
    <3>1. p \in [Link -> Seq(Msg)] /\ m \in Msg /\ Distinct(p, Link)
      BY <1>2, <1>4
    <3> QED
      BY <1>5, <2>1, <3>1, AppendHolds, SMTT(60)
<1>7. \A id : Holds(r, Link, id) <=> Holds(q, Link, id)
  BY <1>3, <1>4, <1>6
<1> QED
  BY <1>6, <1>7 DEF WhereOK

LEMMA HandedIsSame ==
  ASSUME NEW q \in [Link -> Seq(Msg)], NEW rec \in [Receiver -> Seq(Msg)], NEW n,
         WhereOK(q, rec, n), NEW l \in Link, q[l] # <<>>, NEW k \in Receiver,
         NEW p, p = Beheaded(q, l),
         NEW r, r = Appended(rec, k, Head(q[l]))
  PROVE  WhereOK(p, r, n)
<1> DEFINE m == Head(q[l])
<1>1. q[l] \in Seq(Msg)
  OBVIOUS
<1>2. m \in Msg /\ m = q[l][1] /\ 1 \in 1 .. Len(q[l])
  BY <1>1
<1>3. Holds(q, Link, m.id) /\ ~Holds(rec, Receiver, m.id)
  <2>1. Holds(q, Link, m.id)
    BY <1>2 DEF Holds
  <2> QED
    BY <2>1 DEF WhereOK
<1> HIDE DEF m
<1>4. /\ Distinct(p, Link)
      /\ \A id : Holds(p, Link, id) <=> Holds(q, Link, id) /\ id # m.id
  <2>1. Distinct(q, Link)
    BY DEF WhereOK
  <2> QED
    BY <2>1, TailHolds DEF m
<1>5. r = Appended(rec, k, m)
  BY DEF m
<1>6. /\ Distinct(r, Receiver)
      /\ \A id : Holds(r, Receiver, id) <=> Holds(rec, Receiver, id) \/ id = m.id
  <2>1. Distinct(rec, Receiver)
    BY DEF WhereOK
  <2> QED
    BY <1>2, <1>3, <1>5, <2>1, AppendHolds
<1> QED
  BY <1>3, <1>4, <1>6 DEF WhereOK

LEMMA InitOnce ==
  ASSUME ParametersOK
  PROVE  Init => OnceInv
<1> SUFFICES ASSUME Init PROVE OnceInv
  OBVIOUS
<1>1. LinkInv
  BY InitLinks
<1>2. /\ received \in [Receiver -> Seq(Msg)] /\ sent = 0
      /\ \A r \in Receiver : Len(received[r]) = 0
  BY DEF Init
<1>3. \A l \in Link : Len(queues(interconnects)[l]) = 0
  BY DEF Init, EmptyLink, queues
<1>4. \A id : ~Holds(queues(interconnects), Link, id) /\ ~Holds(received, Receiver, id)
  BY <1>2, <1>3 DEF Holds
<1>5. Distinct(queues(interconnects), Link) /\ Distinct(received, Receiver)
  BY <1>2, <1>3 DEF Distinct
<1>6. \A id : id \notin 1 .. 0
  OBVIOUS
<1> QED
  BY <1>1, <1>2, <1>4, <1>5, <1>6 DEF OnceInv, WhereOK

LEMMA SendOnce ==
  ASSUME ParametersOK, OnceInv, Interconnect # "omega",
         NEW s \in Receiver, NEW r \in Receiver, NEW a \in Addr, Send(s, r, a), ~aborted'
  PROVE  WhereOK(queues(interconnects'), received', sent')
<1> DEFINE m == [id |-> sent + 1, sender |-> s, receiver |-> r, addr |-> a]
           n == place(s, a)
<1>1. m \in Msg /\ m.id = sent + 1 /\ n \in Node /\ sent \in Nat
  <2>1. sent \in 0 .. MaxMessages
    BY DEF OnceInv, LinkInv
  <2>2. sent + 1 \in 1 .. MaxMessages
    BY <2>1 DEF ParametersOK, Send
  <2> QED
    BY <2>1, <2>2, PlaceOfReceiver DEF Msg
<1>2. /\ interconnects' = forwarded(interconnects, n, m)
      /\ hop(interconnects, n, m) # NoNode
      /\ sent' = sent + 1 /\ received' = received /\ ~aborted
  BY DEF Send
<1> HIDE DEF m, n
<1>3. AllLinksOK(interconnects) /\ WhereOK(queues(interconnects), received, sent)
  BY <1>2 DEF OnceInv, LinkInv
<1>4. PICK l \in Link :
          queues(interconnects') = Appended(queues(interconnects), l, m)
  BY <1>1, <1>2, <1>3, ForwardQueues
<1>5. queues(interconnects) \in [Link -> Seq(Msg)]
  BY <1>3, QueuesKnown
<1>6. WhereOK(queues(interconnects'), received, sent + 1)
  BY <1>1, <1>3, <1>4, <1>5, SentIsNew
<1> QED
  BY <1>2, <1>6

LEMMA ArriveOnce ==
  ASSUME ParametersOK, OnceInv, Interconnect # "omega", ~aborted,
         NEW l \in Link, Arrive(l)
  PROVE  /\ received' \in [Receiver -> Seq(Msg)]
         /\ \A r \in Receiver : \A i \in 1 .. Len(received'[r]) : received'[r][i].receiver = r
         /\ ~aborted' => WhereOK(queues(interconnects'), received', sent)
<1> DEFINE s == interconnects[l]
           m == Head(s.incomming)
           n == Exit(l, UsesFlip /\ Head(s.flip))
           net == [interconnects EXCEPT ![l] = popped(@)]
           q == queues(interconnects)
<1>1. /\ AllLinksOK(interconnects) /\ LinkOK(l, s)
      /\ WhereOK(q, received, sent) /\ received \in [Receiver -> Seq(Msg)]
  BY DEF OnceInv, LinkInv, AllLinksOK
<1>2. s.delay > 0 /\ (s.delay = 1 \/ (Interconnect \in {"ring", "omega"} /\ l[1] = l[2]))
  BY DEF Arrive, Expires
<1>3. s.incomming # <<>> /\ s.incomming \in Seq(Msg)
  BY <1>1, <1>2 DEF LinkOK, Sub
<1>4. m \in Msg /\ n \in Node /\ q[l] = s.incomming
  <2>1. m \in Msg
    BY <1>3
  <2>2. n \in Node
    BY PlaceIsNode DEF Exit, Link
  <2> QED
    BY <2>1, <2>2 DEF queues
<1>5. AllLinksOK(net)
  BY <1>1, <1>2, PopLinks
<1>6. queues(net) = Beheaded(q, l) /\ q \in [Link -> Seq(Msg)]
  BY <1>1, PopQueues, QueuesKnown
<1>7. \/ /\ received' = Appended(received, m.receiver, m)
         /\ interconnects' = net
      \/ /\ interconnects' = forwarded(net, n, m)
         /\ aborted' = (~Neighbours(l) \/ hop(net, n, m) = NoNode)
         /\ received' = received
  BY DEF Arrive, recipient, Appended
<1>8. m = Head(q[l]) /\ q[l] # <<>>
  BY <1>3, <1>4
<1> HIDE DEF s, m, n, net, q
<1>9. CASE received' = Appended(received, m.receiver, m) /\ interconnects' = net
  <2>1. m.receiver \in Receiver
    BY <1>4 DEF Msg
  <2>2. received' \in [Receiver -> Seq(Msg)]
    BY <1>1, <1>4, <1>9, <2>1 DEF Appended
  <2>3. ASSUME NEW r \in Receiver, NEW i \in 1 .. Len(received'[r])
        PROVE  received'[r][i].receiver = r
    <3>1. CASE r = m.receiver
      <4>1. received'[r] = Append(received[r], m) /\ received[r] \in Seq(Msg)
        BY <1>1, <1>9, <2>1, <3>1 DEF Appended
      <4>2. \/ i = Len(received[r]) + 1 /\ received'[r][i] = m
            \/ i \in 1 .. Len(received[r]) /\ received'[r][i] = received[r][i]
        BY <1>4, <4>1
      <4> QED
        BY <3>1, <4>2 DEF OnceInv
    <3>2. CASE r # m.receiver
      <4>1. received'[r] = received[r]
        BY <1>1, <1>9, <3>2 DEF Appended
      <4> QED
        BY <4>1 DEF OnceInv
    <3> QED
      BY <3>1, <3>2
  <2>4. WhereOK(queues(net), received', sent)
    BY <1>1, <1>6, <1>8, <1>9, <2>1, HandedIsSame
  <2> QED
    BY <1>9, <2>2, <2>3, <2>4
<1>10. CASE /\ interconnects' = forwarded(net, n, m)
            /\ aborted' = (~Neighbours(l) \/ hop(net, n, m) = NoNode)
            /\ received' = received
  <2>1. ASSUME ~aborted' PROVE WhereOK(queues(interconnects'), received, sent)
    <3>1. hop(net, n, m) # NoNode
      BY <1>10, <2>1
    <3>2. PICK k \in Link :
              queues(interconnects') = Appended(queues(net), k, m)
      BY <1>4, <1>5, <1>10, <3>1, ForwardQueues
    <3> QED
      BY <1>1, <1>6, <1>8, <3>2, MovedIsSame
  <2>2. \A r \in Receiver : \A i \in 1 .. Len(received[r]) : received[r][i].receiver = r
    BY DEF OnceInv
  <2> QED
    BY <1>1, <1>10, <2>1, <2>2
<1> QED
  BY <1>7, <1>9, <1>10

LEMMA StepOnce ==
  ASSUME ParametersOK, OnceInv, [Next]_vars, Interconnect # "omega"
  PROVE  OnceInv'
<1> USE DEF OnceInv
<1>1. LinkInv'
  BY StepKeeps
<1>2. ASSUME NEW s \in Receiver, NEW r \in Receiver, NEW a \in Addr, Send(s, r, a)
      PROVE  OnceInv'
  <2>1. received' = received
    BY <1>2 DEF Send
  <2>2. ~aborted' => WhereOK(queues(interconnects'), received', sent')
    BY <1>2, SendOnce
  <2> QED
    BY <1>1, <2>1, <2>2
<1>3. CASE EventBegins
  BY <1>1, <1>3 DEF EventBegins, queues
<1>4. ASSUME NEW l \in Link, LinkEvent(l) PROVE OnceInv'
  <2>1. ~aborted /\ sent' = sent
    BY <1>4 DEF LinkEvent
  <2>2. CASE Start(l) \/ Tick(l)
    <3>1. received' = received
      BY <2>2 DEF Start, Tick
    <3>2. PICK d : interconnects' = [interconnects EXCEPT ![l].delay = d]
      BY <2>2 DEF Start, Tick
    <3>3. queues(interconnects') = queues(interconnects)
      BY <3>2, DelayQueues DEF LinkInv
    <3> QED
      BY <1>1, <2>1, <3>1, <3>3
  <2>3. CASE Arrive(l)
    BY <1>1, <2>1, <2>3, ArriveOnce
  <2> QED
    BY <1>4, <2>2, <2>3 DEF LinkEvent
<1>5. CASE UNCHANGED vars
  BY <1>1, <1>5 DEF vars, queues
<1> QED
  BY <1>2, <1>3, <1>4, <1>5 DEF Next, Sending, Step

LEMMA OnceInvCorrect ==
  ASSUME ParametersOK, Interconnect # "omega"
  PROVE  Spec => []OnceInv
<1>1. OnceInv /\ [Next]_vars => OnceInv'
  BY StepOnce
<1> QED
  BY <1>1, InitOnce, PTL DEF Spec

LEMMA OnceInvImplies ==
  ASSUME ParametersOK
  PROVE  OnceInv /\ ~aborted => ExactlyOnce
<1> SUFFICES ASSUME OnceInv, ~aborted PROVE ExactlyOnce
  OBVIOUS
<1> DEFINE q == queues(interconnects)
<1>1. /\ WhereOK(q, received, sent) /\ received \in [Receiver -> Seq(Msg)]
      /\ AllLinksOK(interconnects) /\ MaxMessages \in Nat
  BY DEF OnceInv, LinkInv, ParametersOK
<1>2. q \in [Link -> Seq(Msg)] /\ \A l \in Link : q[l] = interconnects[l].incomming
  BY <1>1, QueuesKnown DEF queues
<1> HIDE DEF q
<1>3. /\ \A l \in Link : Len(q[l]) <= MaxMessages /\ Len(q[l]) \in Nat
      /\ \A r \in Receiver : Len(received[r]) <= MaxMessages /\ Len(received[r]) \in Nat
  BY <1>1, <1>2, QueueBounded DEF WhereOK
<1>4. ASSUME NEW id \in 1 .. MaxMessages
      PROVE  Cardinality(Copies(id)) = IF id <= sent THEN 1 ELSE 0
  <2> DEFINE Q == {c \in Link \X (1 .. MaxMessages) :
                      c[2] <= Len(q[c[1]]) /\ q[c[1]][c[2]].id = id}
             R == {c \in Receiver \X (1 .. MaxMessages) :
                      c[2] <= Len(received[c[1]]) /\ received[c[1]][c[2]].id = id}
  <2>1. Copies(id) = Q \cup R
    BY <1>2 DEF Copies
  <2>2. \A c : c \in Q <=> \E l \in Link, i \in 1 .. MaxMessages :
                  c = <<l, i>> /\ i \in 1 .. Len(q[l]) /\ q[l][i].id = id
    BY <1>3
  <2>3. \A c : c \in R <=> \E r \in Receiver, i \in 1 .. MaxMessages :
                  c = <<r, i>> /\ i \in 1 .. Len(received[r]) /\ received[r][i].id = id
    BY <1>3
  <2> HIDE DEF Q, R
  <2>4. CASE Holds(q, Link, id)
    <3>1. PICK l \in Link : \E i \in 1 .. Len(q[l]) : q[l][i].id = id
      BY <2>4 DEF Holds
    <3>2. PICK i \in 1 .. Len(q[l]) : q[l][i].id = id
      BY <3>1
    <3>3. i \in 1 .. MaxMessages
      BY <1>1, <1>3
    <3>4. <<l, i>> \in Q
      BY <2>2, <3>2, <3>3
    <3>5. ASSUME NEW c \in Q PROVE c = <<l, i>>
      <4>1. PICK k \in Link : \E j \in 1 .. MaxMessages :
                c = <<k, j>> /\ j \in 1 .. Len(q[k]) /\ q[k][j].id = id
        BY <2>2
      <4>2. PICK j \in 1 .. MaxMessages :
                c = <<k, j>> /\ j \in 1 .. Len(q[k]) /\ q[k][j].id = id
        BY <4>1
      <4>3. k = l /\ j = i
        <5>1. Distinct(q, Link)
          BY <1>1 DEF WhereOK
        <5>2. j \in 1 .. Len(q[k]) /\ q[k][j].id = q[l][i].id
          BY <3>2, <4>2
        <5> QED
          BY <5>1, <5>2 DEF Distinct
      <4> QED
        BY <4>2, <4>3
    <3>6. R = {}
      <4>1. ~Holds(received, Receiver, id)
        BY <1>1, <2>4 DEF WhereOK
      <4> QED
        BY <2>3, <4>1 DEF Holds
    <3>7. Copies(id) = {<<l, i>>}
      BY <2>1, <3>4, <3>5, <3>6
    <3>8. id <= sent
      BY <1>1, <2>4 DEF WhereOK
    <3> QED
      BY <3>7, <3>8, FS_Singleton
  <2>5. CASE Holds(received, Receiver, id)
    <3>1. PICK r \in Receiver : \E i \in 1 .. Len(received[r]) : received[r][i].id = id
      BY <2>5 DEF Holds
    <3>2. PICK i \in 1 .. Len(received[r]) : received[r][i].id = id
      BY <3>1
    <3>3. i \in 1 .. MaxMessages
      BY <1>1, <1>3
    <3>4. <<r, i>> \in R
      BY <2>3, <3>2, <3>3
    <3>5. ASSUME NEW c \in R PROVE c = <<r, i>>
      <4>1. PICK k \in Receiver : \E j \in 1 .. MaxMessages :
                c = <<k, j>> /\ j \in 1 .. Len(received[k]) /\ received[k][j].id = id
        BY <2>3
      <4>2. PICK j \in 1 .. MaxMessages :
                c = <<k, j>> /\ j \in 1 .. Len(received[k]) /\ received[k][j].id = id
        BY <4>1
      <4>3. k = r /\ j = i
        BY <1>1, <3>2, <4>2 DEF WhereOK, Distinct
      <4> QED
        BY <4>2, <4>3
    <3>6. Q = {}
      <4>1. ~Holds(q, Link, id)
        BY <1>1, <2>5 DEF WhereOK
      <4> QED
        BY <2>2, <4>1 DEF Holds
    <3>7. Copies(id) = {<<r, i>>}
      BY <2>1, <3>4, <3>5, <3>6
    <3>8. id <= sent
      BY <1>1, <2>5 DEF WhereOK
    <3> QED
      BY <3>7, <3>8, FS_Singleton
  <2>6. CASE ~Holds(q, Link, id) /\ ~Holds(received, Receiver, id)
    <3>1. Copies(id) = {}
      BY <2>1, <2>2, <2>3, <2>6 DEF Holds
    <3>2. id \notin 1 .. sent
      BY <1>1, <2>6 DEF WhereOK
    <3>3. ~(id <= sent)
      <4>1. sent \in 0 .. MaxMessages
        BY DEF OnceInv, LinkInv
      <4> QED
        BY <3>2, <4>1
    <3> QED
      BY <3>1, <3>3, FS_EmptySet
  <2> QED
    BY <2>4, <2>5, <2>6
<1> QED
  BY <1>4 DEF ExactlyOnce, OnceInv

-----------------------------------------------------------------------------
\* event() always finds the first of the links that have something to do.
LEMMA BusyKnown ==
  ASSUME ParametersOK, Interconnect # "omega", NEW net, NEW links \in SUBSET Link
  PROVE  Busy(net, links) \in Link \cup {NoLink}
<1> DEFINE busy == {l \in links : ~Inert(net[l])}
<1>1. CASE busy = {}
  BY <1>1 DEF Busy
<1>2. CASE busy # {}
  <2> DEFINE firsts == {l[1] : l \in busy}
  <2>1. \A l \in busy : l \in Link /\ l = <<l[1], l[2]>> /\ l[1] \in Nat /\ l[2] \in Nat
    BY PlaceIsNode DEF Link, Node, ParametersOK, RoutingParametersOK
  <2>2. firsts \in SUBSET Nat /\ firsts # {}
    BY <1>2, <2>1
  <2>3. PICK x \in firsts : \A y \in firsts : x <= y
    BY <2>2, LeastIndex
  <2> DEFINE seconds == {l[2] : l \in {k \in busy : k[1] = x}}
  <2>4. seconds \in SUBSET Nat /\ seconds # {}
    BY <2>1, <2>3
  <2> HIDE DEF busy
  <2>5. PICK z \in seconds : \A y \in seconds : z <= y
    BY <2>4, LeastIndex
  <2>6. PICK l \in busy : l[1] = x /\ l[2] = z
    BY <2>5
  <2>7. ASSUME NEW k \in busy, k # l PROVE before(l, k)
    <3>1. x <= k[1] /\ x \in Nat /\ k[1] \in Nat
      BY <2>1, <2>2, <2>3
    <3>2. k[1] = x => z <= k[2] /\ z \in Nat /\ k[2] \in Nat
      BY <2>1, <2>4, <2>5
    <3>3. k[1] = x => k[2] # z
      BY <2>1, <2>6, <2>7
    <3> QED
      BY <2>6, <3>1, <3>2, <3>3 DEF before
  <2>8. \E b \in busy : \A k \in busy \ {b} : before(b, k)
    BY <2>6, <2>7
  <2>9. Busy(net, links) = CHOOSE b \in busy : \A k \in busy \ {b} : before(b, k)
    BY <1>2 DEF Busy, busy
  <2>10. Busy(net, links) \in busy
    BY <2>8, <2>9
  <2> QED
    BY <2>1, <2>10
<1> QED
  BY <1>1, <1>2

TypesInv == OnceInv /\ current \in Link \cup {NoLink} /\ aborted \in BOOLEAN

LEMMA StepTypes ==
  ASSUME ParametersOK, Interconnect # "omega", TypesInv, [Next]_vars
  PROVE  TypesInv'
<1>1. OnceInv'
  BY StepOnce DEF TypesInv
<1>2. ASSUME NEW s \in Receiver, NEW r \in Receiver, NEW a \in Addr, Send(s, r, a)
      PROVE  current' = current /\ aborted' \in BOOLEAN
  BY <1>2 DEF Send
<1>3. ASSUME EventBegins PROVE current' \in Link \cup {NoLink} /\ aborted' = aborted
  <2>1. Link \in SUBSET Link
    OBVIOUS
  <2> QED
    BY <1>3, <2>1, BusyKnown DEF EventBegins
<1>4. ASSUME NEW l \in Link, LinkEvent(l)
      PROVE  current' \in Link \cup {NoLink} /\ aborted' \in BOOLEAN
  <2>1. Start(l) \/ Tick(l) \/ Arrive(l)
    BY <1>4 DEF LinkEvent
  <2>2. aborted' \in BOOLEAN
    BY <2>1 DEF Start, Tick, Arrive, TypesInv
  <2>3. current' = Busy(interconnects', {k \in Link : before(l, k)})
    BY <1>4 DEF LinkEvent
  <2> QED
    BY <2>2, <2>3, BusyKnown
<1>5. ASSUME UNCHANGED vars PROVE current' = current /\ aborted' = aborted
  BY <1>5 DEF vars
<1>6. current' \in Link \cup {NoLink} /\ aborted' \in BOOLEAN
  BY <1>2, <1>3, <1>4, <1>5 DEF Next, Sending, Step, TypesInv
<1> QED
  BY <1>1, <1>6 DEF TypesInv

LEMMA TypesInvCorrect ==
  ASSUME ParametersOK, Interconnect # "omega"
  PROVE  Spec => []TypesInv
<1>1. Init => TypesInv
  BY InitOnce DEF Init, TypesInv
<1>2. TypesInv /\ [Next]_vars => TypesInv'
  BY StepTypes
<1> QED
  BY <1>1, <1>2, PTL DEF Spec

-----------------------------------------------------------------------------
\* On the crossbar every message is on the link from its sender to its receiver, behind
\* those sent before it.
way(m) == index(place(m.sender, m.addr), place(m.receiver, m.addr))

SamePair(m, k) == m.sender = k.sender /\ m.receiver = k.receiver /\ m.addr = k.addr

OnTheWay(q) == \A l \in Link : \A i \in 1 .. Len(q[l]) : l = way(q[l][i])

InLine(q) ==
    \A l \in Link : \A i, j \in 1 .. Len(q[l]) : i < j => q[l][i].id < q[l][j].id

HandedFirst(q, rec) ==
    \A r \in Receiver : \A i \in 1 .. Len(rec[r]) :
        \A l \in Link : \A j \in 1 .. Len(q[l]) :
            SamePair(rec[r][i], q[l][j]) => rec[r][i].id < q[l][j].id

Handed(rec) ==
    \A r \in Receiver : \A i, j \in 1 .. Len(rec[r]) :
        i < j /\ SamePair(rec[r][i], rec[r][j]) => rec[r][i].id < rec[r][j].id

InOrder(q, rec) == OnTheWay(q) /\ InLine(q) /\ HandedFirst(q, rec) /\ Handed(rec)

OrderInv == OnceInv /\ InOrder(queues(interconnects), received)

LEMMA SentBehind ==
  ASSUME NEW q \in [Link -> Seq(Msg)], NEW rec \in [Receiver -> Seq(Msg)], NEW n \in Nat,
         WhereOK(q, rec, n), InOrder(q, rec),
         NEW m \in Msg, m.id = n + 1, NEW l \in Link, l = way(m),
         NEW p, p = Appended(q, l, m)
  PROVE  InOrder(p, rec)
<1>1. /\ \A k \in Link : k # l => p[k] = q[k]
      /\ Len(p[l]) = Len(q[l]) + 1 /\ Len(q[l]) \in Nat
      /\ p[l][Len(q[l]) + 1] = m
      /\ \A i \in 1 .. Len(q[l]) : p[l][i] = q[l][i]
  BY DEF Appended
<1>2. ASSUME NEW k \in Link, NEW i \in 1 .. Len(p[k])
      PROVE  \/ k = l /\ i = Len(q[l]) + 1 /\ p[k][i] = m
             \/ i \in 1 .. Len(q[k]) /\ p[k][i] = q[k][i]
  BY <1>1, SMTT(60)
<1>3. /\ \A k \in Link : \A i \in 1 .. Len(q[k]) : q[k][i].id < n + 1
      /\ \A r \in Receiver : \A i \in 1 .. Len(rec[r]) : rec[r][i].id < n + 1
  <2>1. \A id : id \in 1 .. n => id < n + 1
    OBVIOUS
  <2>2. \A id : Holds(q, Link, id) \/ Holds(rec, Receiver, id) => id < n + 1
    BY <2>1 DEF WhereOK
  <2> QED
    BY <2>2 DEF Holds
<1>4. OnTheWay(p)
  <2> SUFFICES ASSUME NEW k \in Link, NEW i \in 1 .. Len(p[k]) PROVE k = way(p[k][i])
    BY DEF OnTheWay
  <2>1. CASE k = l /\ p[k][i] = m
    BY <2>1
  <2>2. CASE i \in 1 .. Len(q[k]) /\ p[k][i] = q[k][i]
    BY <2>2 DEF InOrder, OnTheWay
  <2> QED
    BY <1>2, <2>1, <2>2
<1>5. InLine(p)
  <2> SUFFICES ASSUME NEW k \in Link, NEW i \in 1 .. Len(p[k]), NEW j \in 1 .. Len(p[k]), i < j
               PROVE  p[k][i].id < p[k][j].id
    BY DEF InLine
  <2>1. i \in 1 .. Len(q[k]) /\ p[k][i] = q[k][i]
    <3>1. CASE k = l
      BY <1>1, <3>1
    <3>2. CASE k # l
      BY <1>2, <3>2
    <3> QED
      BY <3>1, <3>2
  <2>2. CASE p[k][j] = m
    BY <1>3, <2>1, <2>2
  <2>3. CASE j \in 1 .. Len(q[k]) /\ p[k][j] = q[k][j]
    BY <2>1, <2>3 DEF InOrder, InLine
  <2> QED
    BY <1>2, <2>2, <2>3
<1>6. HandedFirst(p, rec)
  <2> SUFFICES ASSUME NEW r \in Receiver, NEW i \in 1 .. Len(rec[r]),
                      NEW k \in Link, NEW j \in 1 .. Len(p[k]), SamePair(rec[r][i], p[k][j])
               PROVE  rec[r][i].id < p[k][j].id
    BY DEF HandedFirst
  <2>1. CASE p[k][j] = m
    BY <1>3, <2>1
  <2>2. CASE j \in 1 .. Len(q[k]) /\ p[k][j] = q[k][j]
    BY <2>2 DEF InOrder, HandedFirst
  <2> QED
    BY <1>2, <2>1, <2>2
<1> QED
  BY <1>4, <1>5, <1>6 DEF InOrder

LEMMA HandedInOrder ==
  ASSUME NEW q \in [Link -> Seq(Msg)], NEW rec \in [Receiver -> Seq(Msg)], InOrder(q, rec),
         NEW l \in Link, q[l] # <<>>, NEW m \in Msg, m = Head(q[l]),
         NEW p, p = Beheaded(q, l),
         NEW r, r = Appended(rec, m.receiver, m)
  PROVE  InOrder(p, r)
<1>1. q[l] \in Seq(Msg) /\ m.receiver \in Receiver
  BY DEF Msg
<1>2. /\ \A k \in Link : k # l => p[k] = q[k]
      /\ Len(p[l]) = Len(q[l]) - 1 /\ Len(q[l]) \in Nat \ {0}
      /\ m = q[l][1]
      /\ \A i \in 1 .. Len(p[l]) : p[l][i] = q[l][i + 1]
  BY <1>1 DEF Beheaded
<1> DEFINE from(k, i) == IF k = l THEN i + 1 ELSE i
<1>3. ASSUME NEW k \in Link, NEW i \in 1 .. Len(p[k])
      PROVE  /\ from(k, i) \in 1 .. Len(q[k]) /\ p[k][i] = q[k][from(k, i)]
             /\ k = l => 1 < from(k, i)
  BY <1>2
<1>4. ASSUME NEW k, NEW i \in Nat, NEW j \in Nat, i < j PROVE from(k, i) < from(k, j)
  BY <1>4
<1>5. 1 \in 1 .. Len(q[l])
  BY <1>2
<1>6. ASSUME NEW x \in Receiver, NEW i \in 1 .. Len(r[x])
      PROVE  \/ x = m.receiver /\ i = Len(rec[x]) + 1 /\ r[x][i] = m
             \/ i \in 1 .. Len(rec[x]) /\ r[x][i] = rec[x][i]
  <2>1. CASE x # m.receiver
    BY <2>1 DEF Appended
  <2>2. CASE x = m.receiver
    <3>1. rec[x] \in Seq(Msg) /\ r[x] = Append(rec[x], m)
      BY <2>2 DEF Appended
    <3> QED
      BY <2>2, <3>1
  <2> QED
    BY <2>1, <2>2
<1> HIDE DEF from
<1>7. OnTheWay(p)
  <2> SUFFICES ASSUME NEW k \in Link, NEW i \in 1 .. Len(p[k]) PROVE k = way(p[k][i])
    BY DEF OnTheWay
  <2> QED
    BY <1>3, SMTT(60) DEF InOrder, OnTheWay
<1>8. InLine(p)
  <2> SUFFICES ASSUME NEW k \in Link, NEW i \in 1 .. Len(p[k]), NEW j \in 1 .. Len(p[k]), i < j
               PROVE  p[k][i].id < p[k][j].id
    BY DEF InLine
  <2>1. from(k, i) < from(k, j)
    BY <1>4
  <2> QED
    BY <1>3, <2>1 DEF InOrder, InLine
<1>9. ASSUME NEW k \in Link, NEW j \in 1 .. Len(p[k]), SamePair(m, p[k][j])
      PROVE  m.id < p[k][j].id
  <2>1. from(k, j) \in 1 .. Len(q[k]) /\ p[k][j] = q[k][from(k, j)]
    BY <1>3
  <2>2. k = way(p[k][j]) /\ l = way(m)
    BY <1>2, <1>5, <2>1 DEF InOrder, OnTheWay
  <2>3. way(m) = way(p[k][j])
    BY <1>9 DEF SamePair, way
  <2>4. k = l /\ 1 < from(k, j)
    BY <1>3, <2>2, <2>3
  <2> QED
    BY <1>2, <1>5, <2>1, <2>4 DEF InOrder, InLine
<1>10. HandedFirst(p, r)
  <2> SUFFICES ASSUME NEW x \in Receiver, NEW i \in 1 .. Len(r[x]),
                      NEW k \in Link, NEW j \in 1 .. Len(p[k]), SamePair(r[x][i], p[k][j])
               PROVE  r[x][i].id < p[k][j].id
    BY DEF HandedFirst
  <2>1. CASE r[x][i] = m
    BY <1>9, <2>1
  <2>2. CASE i \in 1 .. Len(rec[x]) /\ r[x][i] = rec[x][i]
    BY <1>3, <2>2 DEF InOrder, HandedFirst
  <2> QED
    BY <1>6, <2>1, <2>2
<1>11. Handed(r)
  <2> SUFFICES ASSUME NEW x \in Receiver, NEW i \in 1 .. Len(r[x]), NEW j \in 1 .. Len(r[x]),
                      i < j, SamePair(r[x][i], r[x][j])
               PROVE  r[x][i].id < r[x][j].id
    BY DEF Handed
  <2>1. i \in 1 .. Len(rec[x]) /\ r[x][i] = rec[x][i]
    <3>1. j <= Len(rec[x]) + 1 /\ Len(rec[x]) \in Nat
      BY <1>6
    <3> QED
      BY <1>6, <3>1
  <2>2. CASE r[x][j] = m
    <3>1. SamePair(rec[x][i], q[l][1])
      BY <1>2, <2>1, <2>2
    <3> QED
      BY <1>2, <1>5, <2>1, <2>2, <3>1, ZenonT(60) DEF InOrder, HandedFirst
  <2>3. CASE j \in 1 .. Len(rec[x]) /\ r[x][j] = rec[x][j]
    BY <2>1, <2>3 DEF InOrder, Handed
  <2> QED
    BY <1>6, <2>2, <2>3
<1> QED
  BY <1>7, <1>8, <1>10, <1>11 DEF InOrder

LEMMA SendInOrder ==
  ASSUME ParametersOK, OrderInv, Interconnect = "crossbar",
         NEW s \in Receiver, NEW r \in Receiver, NEW a \in Addr, Send(s, r, a)
  PROVE  InOrder(queues(interconnects'), received')
<1> DEFINE m == [id |-> sent + 1, sender |-> s, receiver |-> r, addr |-> a]
           n == place(s, a)
           l == index(n, place(r, a))
           q == queues(interconnects)
<1>1. m \in Msg /\ m.id = sent + 1 /\ sent \in Nat /\ l = way(m)
  <2>1. sent \in 0 .. MaxMessages
    BY DEF OrderInv, OnceInv, LinkInv
  <2>2. sent + 1 \in 1 .. MaxMessages
    BY <2>1 DEF ParametersOK, Send
  <2> QED
    BY <2>1, <2>2 DEF Msg, way
<1>2. n \in Node /\ place(r, a) \in Node
  BY PlaceOfReceiver
<1>3. l \in Link
  BY <1>2 DEF index, Link, Place
<1>4. hop(interconnects, n, m) = place(r, a) /\ place(r, a) # NoNode
  BY <1>2 DEF hop, next, NoNode, Node
<1>5. /\ interconnects' = [interconnects EXCEPT ![l] = pushed(@, m, place(r, a) < n)]
      /\ received' = received /\ ~aborted
  BY <1>4 DEF Send, forwarded
<1>6. /\ AllLinksOK(interconnects) /\ WhereOK(q, received, sent)
      /\ InOrder(q, received) /\ received \in [Receiver -> Seq(Msg)]
  BY <1>5 DEF OrderInv, OnceInv, LinkInv
<1>7. ASSUME NEW k \in Link
      PROVE  interconnects'[k].incomming = IF k = l THEN Append(interconnects[k].incomming, m)
                                           ELSE interconnects[k].incomming
  BY <1>5, <1>6 DEF AllLinksOK, pushed
<1>8. q \in [Link -> Seq(Msg)]
  BY <1>6, QueuesKnown
<1> HIDE DEF m, n, l
<1>9. queues(interconnects') = Appended(q, l, m)
  BY <1>3, <1>7 DEF queues, Appended
<1> HIDE DEF q
<1> QED
  BY <1>1, <1>3, <1>5, <1>6, <1>8, <1>9, SentBehind

LEMMA ArriveInOrder ==
  ASSUME ParametersOK, OrderInv, Interconnect = "crossbar", ~aborted,
         NEW l \in Link, Arrive(l)
  PROVE  InOrder(queues(interconnects'), received')
<1> DEFINE s == interconnects[l]
           m == Head(s.incomming)
           net == [interconnects EXCEPT ![l] = popped(@)]
           q == queues(interconnects)
<1>1. /\ AllLinksOK(interconnects) /\ LinkOK(l, s)
      /\ InOrder(q, received) /\ received \in [Receiver -> Seq(Msg)]
  BY DEF OrderInv, OnceInv, LinkInv, AllLinksOK
<1>2. s.incomming # <<>> /\ s.incomming \in Seq(Msg)
  BY <1>1 DEF LinkOK, Sub, Arrive
<1>3. m \in Msg
  BY <1>2
<1>4. q[l] = s.incomming
  BY DEF queues
<1>5. queues(net) = Beheaded(q, l) /\ q \in [Link -> Seq(Msg)]
  BY <1>1, PopQueues, QueuesKnown
<1>6. received' = Appended(received, m.receiver, m) /\ interconnects' = net
  BY DEF Arrive, Arrived, recipient, Appended
<1>7. m = Head(q[l]) /\ q[l] # <<>>
  BY <1>2, <1>4
<1> HIDE DEF s, m, net, q
<1> QED
  BY <1>1, <1>3, <1>5, <1>6, <1>7, HandedInOrder

LEMMA StepInOrder ==
  ASSUME ParametersOK, OrderInv, [Next]_vars, Interconnect = "crossbar"
  PROVE  OrderInv'
<1> USE DEF OrderInv
<1>1. OnceInv'
  BY StepOnce
<1>2. ASSUME NEW s \in Receiver, NEW r \in Receiver, NEW a \in Addr, Send(s, r, a)
      PROVE  OrderInv'
  BY <1>1, <1>2, SendInOrder
<1>3. CASE EventBegins
  BY <1>1, <1>3 DEF EventBegins, queues
<1>4. ASSUME NEW l \in Link, LinkEvent(l) PROVE OrderInv'
  <2>1. ~aborted
    BY <1>4 DEF LinkEvent
  <2>2. CASE Start(l) \/ Tick(l)
    <3>1. received' = received
      BY <2>2 DEF Start, Tick
    <3>2. PICK d : interconnects' = [interconnects EXCEPT ![l].delay = d]
      BY <2>2 DEF Start, Tick
    <3>3. queues(interconnects') = queues(interconnects)
      BY <3>2, DelayQueues DEF OnceInv, LinkInv
    <3> QED
      BY <1>1, <3>1, <3>3
  <2>3. CASE Arrive(l)
    BY <1>1, <2>1, <2>3, ArriveInOrder
  <2> QED
    BY <1>4, <2>2, <2>3 DEF LinkEvent
<1>5. CASE UNCHANGED vars
  BY <1>1, <1>5 DEF vars, queues
<1> QED
  BY <1>2, <1>3, <1>4, <1>5 DEF Next, Sending, Step

-----------------------------------------------------------------------------
\* No interconnect with direct links (crossbar, ring, mesh, torus) ever takes a message
\* or a direction from an empty queue, and the two queues of a link stay in step,
\* whatever is sent, for any number of nodes and any delay.
THEOREM FrontCorrect ==
  ASSUME ParametersOK, Interconnect # "omega"
  PROVE  Spec => []FrontExists
<1>1. LinkInv => FrontExists
  BY DEF LinkInv, AllLinksOK, LinkOK, FrontExists
<1> QED
  BY <1>1, LinkInvCorrect, PTL

\* On a ring and on a mesh of any size every hop brings a message nearer to its
\* receiver, whatever direction the queues make the router choose, and on the mesh also
\* where the last row is not full.
THEOREM ApproachCorrect ==
  ASSUME ParametersOK, Interconnect \in {"ring", "mesh"}
  PROVE  Spec => []EveryHopApproaches
<1>1. AlwaysRoutes /\ Interconnect # "omega"
  BY DEF AlwaysRoutes
<1>2. LinkInv => EveryHopApproaches
  <2> SUFFICES ASSUME LinkInv, NEW l \in Link, NEW i \in 1 .. Len(interconnects[l].incomming)
               PROVE  HopOK(l, interconnects[l].incomming[i],
                            UsesFlip /\ interconnects[l].flip[i])
    BY DEF EveryHopApproaches, HopOK
  <2> QED
    BY <1>1 DEF LinkInv, AllLinksOK, LinkOK
<1>3. Spec => []LinkInv
  BY <1>1, LinkInvCorrect
<1> QED
  BY <1>2, <1>3, PTL

\* The router of a ring and of a mesh always finds a node, and on a ring no link but
\* those between neighbours is ever used.
THEOREM AssertsCorrect ==
  ASSUME ParametersOK, Interconnect \in {"ring", "mesh"}
  PROVE  Spec => []RoutingAsserts
<1>1. AlwaysRoutes /\ Interconnect # "omega"
  BY DEF AlwaysRoutes
<1>2. LinkInv => RoutingAsserts
  BY <1>1 DEF LinkInv, RoutingAsserts
<1>3. Spec => []LinkInv
  BY <1>1, LinkInvCorrect
<1> QED
  BY <1>2, <1>3, PTL

\* On the crossbar, the ring and the mesh no message is lost, doubled, or handed to
\* another receiver than its own, whatever is sent, for any number of nodes and any
\* delay.
THEOREM ExactlyOnceCorrect ==
  ASSUME ParametersOK, AlwaysRoutes
  PROVE  Spec => []ExactlyOnce
<1>1. Interconnect # "omega"
  BY DEF AlwaysRoutes
<1>2. OnceInv => ExactlyOnce
  BY OnceInvImplies DEF OnceInv, LinkInv
<1>3. Spec => []OnceInv
  BY <1>1, OnceInvCorrect
<1> QED
  BY <1>2, <1>3, PTL

\* The torus too, unless its router fails to find a node.
THEOREM UnlessAborted ==
  ASSUME ParametersOK, Interconnect # "omega"
  PROVE  Spec => [](~aborted => ExactlyOnce)
<1>1. OnceInv => (~aborted => ExactlyOnce)
  BY OnceInvImplies
<1> QED
  BY <1>1, OnceInvCorrect, PTL

\* The queues, the receivers and the place event() is at hold what they should: event()
\* always finds the first link that has something to do.
THEOREM NetworkTypes ==
  ASSUME ParametersOK, Interconnect # "omega"
  PROVE  Spec => []TypeOK
<1>1. TypesInv => TypeOK
  <2> SUFFICES ASSUME TypesInv PROVE TypeOK
    OBVIOUS
  <2>1. interconnects \in [Link -> Sub]
    <3>1. AllLinksOK(interconnects)
      BY DEF TypesInv, OnceInv, LinkInv
    <3>2. interconnects = [l \in Link |-> interconnects[l]]
          /\ \A l \in Link : interconnects[l] \in Sub
      BY <3>1 DEF AllLinksOK, LinkOK
    <3> QED
      BY <3>2
  <2> QED
    BY <2>1 DEF TypesInv, OnceInv, LinkInv, TypeOK
<1> QED
  BY <1>1, TypesInvCorrect, PTL

\* On the crossbar the messages between two receivers about one block arrive in the
\* order in which they were sent, for any number of nodes and any delay, also with
\* the memory spread over the nodes.
THEOREM CrossbarOrder ==
  ASSUME ParametersOK, Interconnect = "crossbar"
  PROVE  Spec => []PairsInOrder
<1>1. Init => OrderInv
  <2> SUFFICES ASSUME Init PROVE OrderInv
    OBVIOUS
  <2>1. OnceInv
    BY InitOnce
  <2>2. /\ \A r \in Receiver : Len(received[r]) = 0
        /\ \A l \in Link : Len(queues(interconnects)[l]) = 0
    BY DEF Init, EmptyLink, queues
  <2> QED
    BY <2>1, <2>2 DEF OrderInv, InOrder, OnTheWay, InLine, HandedFirst, Handed
<1>2. OrderInv /\ [Next]_vars => OrderInv'
  BY StepInOrder
<1>3. OrderInv => PairsInOrder
  <2> SUFFICES ASSUME OrderInv, NEW r \in Receiver,
                      NEW i \in 1 .. Len(received[r]), NEW j \in 1 .. Len(received[r]), i < j,
                      received[r][i].sender = received[r][j].sender,
                      received[r][i].addr = received[r][j].addr
               PROVE  received[r][i].id < received[r][j].id
    BY DEF PairsInOrder
  <2>1. received[r][i].receiver = received[r][j].receiver
    BY DEF OrderInv, OnceInv
  <2> QED
    BY <2>1 DEF OrderInv, InOrder, Handed, SamePair
<1> QED
  BY <1>1, <1>2, <1>3, PTL DEF Spec

=============================================================================
