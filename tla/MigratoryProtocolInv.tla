----------------------- MODULE MigratoryProtocolInv ------------------------
(***************************************************************************)
(* The inductive invariant of MigratoryProtocol.  Its safety properties    *)
(* say what holds between requests; the conjuncts added here say what a    *)
(* request under way has already achieved, and where what it has not       *)
(* achieved yet is still on its way.                                       *)
(***************************************************************************)
EXTENDS MigratoryProtocol

\* What waits to be issued again is a request: with it, type correctness is
\* inductive.
ReissueHasRequest ==
    \A p \in Proc : pending_reissue[p] => pending_request[p].type # "none"

\* A block that is not in the cache has no state left behind.
LinesNormal ==
    \A p \in Proc, a \in Addr : ~line[p][a].valid => line[p][a] = NoLine

\* What is on the way to a processor comes from another one, a request is the
\* one its sender has sent, and no acknowledgement announces that the holder
\* transmits the block.
TrafficShape ==
    \A m \in BagToSet(net) :
        /\ m.sender # m.receiver
        /\ m.type = "ack" => m.flags \cap FLAG_TRANSMIT = {}
        /\ m.type \in {"busRd", "busRdX"} /\ m.receiver # MEM =>
              m.type = pending_request[m.sender].type

\* While a write request is under way, whoever still holds the block has not
\* seen the request yet.
WriteReachesHolders ==
    \A p \in Proc : Active(p) /\ pending_request[p].type = "busRdX" =>
        \A q \in Proc \ {p} :
            line[q][pending_request[p].addr].valid => RequestTo(p, q) \in Traffic

\* While a read request is under way, whoever holds the block has not seen the
\* request yet, or has given up the right to write and said so.
SharedReported(p, q) ==
    \/ pending_request[p].shared
    \/ \E m \in AcksFrom(p, q) : m.flags \cap FLAG_SHARED # {}

ReadReachesHolders ==
    \A p \in Proc : Active(p) /\ pending_request[p].type = "busRd" =>
        \A q \in Proc \ {p} :
            line[q][pending_request[p].addr].valid =>
                \/ RequestTo(p, q) \in Traffic
                \/ /\ ~Exclusive(q, pending_request[p].addr)
                   /\ SharedReported(p, q)

\* While a request is under way, the cache that would supply the block has not
\* seen it yet.
RequestReachesSupplier ==
    \A p \in Proc : Active(p) =>
        \A q \in Proc \ {p} :
            line[q][pending_request[p].addr].most_recent =>
                RequestTo(p, q) \in Traffic

IInv ==
    /\ TypeOK
    /\ LinesNormal
    /\ TrafficShape
    /\ AssertsHold
    /\ TableOwnership
    /\ DirectoryCovers
    /\ AcksExact
    /\ WriteReachesHolders
    /\ ReadReachesHolders
    /\ RequestReachesSupplier
    /\ SingleWriter
    /\ OneSupplier
    /\ MigrationMovesTheBlock

=============================================================================
