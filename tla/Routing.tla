------------------------------- MODULE Routing -------------------------------
(***************************************************************************)
(* Where an interconnect sends a message next: the next() of the ring, the *)
(* mesh, the torus and the omega network, as functions of the node the     *)
(* message is at, its source and destination and the lengths of the queues *)
(* the code compares to break a tie.                                       *)
(***************************************************************************)
EXTENDS Integers

CONSTANTS
    Interconnect,   \* which of the interconnects is used
    nproc           \* the number of the last node

\* Named and not assumed, like ParametersOK of Network: one run puts several networks
\* side by side, each with constants of its own.
RoutingParametersOK ==
    /\ Interconnect \in {"crossbar", "ring", "mesh", "torus", "omega"}
    /\ nproc \in Nat \ {0}

Node == 0 .. nproc

NoNode == -1        \* an assert of next() has failed

difference(m, n) == IF m < n THEN n - m ELSE m - n

-----------------------------------------------------------------------------
\* Ring::next.  size[n] is the length of the queue of interconnects[n].

left_off_by_one(n) == IF n = 0 THEN nproc - 1 ELSE n - 1

left(n)  == IF n = 0 THEN nproc ELSE n - 1
right(n) == IF n = nproc THEN 0 ELSE n + 1

\* The distance to dst when only steps to the right, or to the left, are made.
right_distance(n, dst) == IF n < dst THEN dst - n ELSE dst + (nproc + 1 - n)
left_distance(n, dst)  == IF n < dst THEN n + (nproc + 1 - dst) ELSE n - dst

ring_next_stays(n, dst, size) ==
    IF n = dst THEN dst
    ELSE IF left_distance(n, dst) < right_distance(n, dst) THEN left(n) ELSE right(n)

ring_next_wrong_way(n, dst, size) ==
    IF left_distance(n, dst) > right_distance(n, dst) THEN left(n) ELSE right(n)

ring_next(n, dst, size) ==
    LET L == left_distance(n, dst)
        R == right_distance(n, dst)
    IN  IF left(n) = dst THEN left(n)
        ELSE IF right(n) = dst THEN right(n)
        ELSE IF L < R \/ (L = R /\ size[left(n)] < size[right(n)])
        THEN left(n) ELSE right(n)

-----------------------------------------------------------------------------
\* Mesh::next and Torus::next.  The nodes fill rows of the given length, the last
\* of which may be incomplete, and which may be more than there are columns.

length == CHOOSE l \in 1 .. nproc + 1 :
              l * l <= nproc + 1 /\ nproc + 1 < (l + 1) * (l + 1)

col(n) == n % length
row(n) == n \div length
at(x, y) == y * length + x

\* The two candidates are one step in either direction; the last step may be both
\* at once.  Of two nodes that exist the one with the shorter queue is taken.
grid_next(n, dst, x, y, size) ==
    LET h == at(x, row(n))
        v == at(col(n), y)
        possible(m) == m # n /\ m \in Node
    IN  IF x = col(dst) /\ y = row(dst) THEN dst
        ELSE IF ~possible(h) /\ ~possible(v) THEN NoNode
        ELSE IF ~possible(v) \/ (possible(h) /\ size[h] < size[v]) THEN h ELSE v

toward_never_back(c, e) == IF c < e THEN c + 1 ELSE c

toward_overshoots(c, e) == IF c <= e THEN c + 1 ELSE c - 1

toward(c, e) == IF c < e THEN c + 1 ELSE IF c > e THEN c - 1 ELSE c

mesh_next(n, dst, size) ==
    grid_next(n, dst, toward(col(n), col(dst)), toward(row(n), row(dst)), size)

\* The last column of row y that has a node.
last_col(y) == IF at(length - 1, y) <= nproc THEN length - 1 ELSE nproc - at(0, y)

torus_col_no_wrap(c, e, y) ==
    IF c < e THEN IF e - c < c + (length - e) THEN c + 1
                  ELSE IF c = 0 THEN c ELSE c - 1
    ELSE IF c > e THEN c - 1
    ELSE c

\* One step from column c to column e in row y, the shorter way round.
torus_col(c, e, y) ==
    IF c < e
    THEN IF e - c < c + (length - e) THEN c + 1
         ELSE IF c = 0 THEN last_col(y) ELSE c - 1
    ELSE IF c > e
    THEN IF c - e < e + (length - c) THEN c - 1
         ELSE IF at(c + 1, y) > nproc THEN 0 ELSE c + 1
    ELSE c

torus_row_one_way(c, e, x) ==
    IF c < e THEN IF e - c < c + (length - e) THEN c + 1 ELSE c
    ELSE IF c > e THEN c + 1
    ELSE c

\* One step from row c to row e in column x.  The code takes the number of rows
\* to be the number of columns.
torus_row(c, e, x) ==
    IF c < e
    THEN IF e - c < c + (length - e) THEN c + 1
         ELSE LET up == IF c = 0 THEN length - 1 ELSE c - 1
              IN  IF at(x, up) > nproc THEN up - 1 ELSE up
    ELSE IF c > e
    THEN IF c - e < e + (length - c) THEN c - 1
         ELSE IF at(x, c + 1) > nproc THEN 0 ELSE c + 1
    ELSE c

torus_next(n, dst, size) ==
    grid_next(n, dst, torus_col(col(n), col(dst), row(n)),
                      torus_row(row(n), row(dst), col(n)), size)

-----------------------------------------------------------------------------
\* Omega::next.  Between the nodes lie num_bits layers of four switches each.

num_bits == CHOOSE b \in 1 .. nproc : 2 ^ (b - 1) <= nproc /\ nproc < 2 ^ b

Switch == IF Interconnect = "omega" THEN nproc + 1 .. nproc + 4 * num_bits ELSE {}
Place  == Node \cup Switch

bit(n, i) == (n \div 2 ^ i) % 2

\* The switch of a layer is chosen by that bit of the source and the destination.
switch(layer, source, dst) ==
    nproc + 4 * layer + 1 + 2 * bit(source, layer) + bit(dst, layer)

layers_off_by_one(n) == (n - (nproc + 1)) \div 4

layers(n) == (n - (nproc + 1)) \div 4 + 1

omega_next(n, source, dst) ==
    IF n \in Node THEN switch(0, source, dst)
    ELSE IF layers(n) = num_bits THEN dst
    ELSE switch(layers(n), source, dst)

-----------------------------------------------------------------------------
next(n, source, dst, size) ==
    CASE Interconnect = "ring"  -> ring_next(n, dst, size)
      [] Interconnect = "mesh"  -> mesh_next(n, dst, size)
      [] Interconnect = "torus" -> torus_next(n, dst, size)
      [] Interconnect = "omega" -> omega_next(n, source, dst)
      [] OTHER                  -> dst

-----------------------------------------------------------------------------
(***************************************************************************)
(* The reference the routes are compared with: how many hops away dst is.  *)
(***************************************************************************)
smaller(m, n) == IF m < n THEN m ELSE n

\* Between two positions on a cycle of k.
around(m, n, k) == smaller(difference(m, n), k - difference(m, n))

distance(n, dst) ==
    CASE Interconnect = "ring" -> around(n, dst, nproc + 1)
      [] Interconnect = "mesh" ->
            difference(col(n), col(dst)) + difference(row(n), row(dst))
      [] Interconnect = "torus" ->
            around(col(n), col(dst), length) + around(row(n), row(dst), row(nproc) + 1)
      [] Interconnect = "omega" ->
            IF n = dst THEN 0
            ELSE IF n \in Node THEN num_bits + 1
            ELSE num_bits + 1 - layers(n)
      [] OTHER -> IF n = dst THEN 0 ELSE 1

=============================================================================
