------------------------- MODULE CoherentRefinement -------------------------
(***************************************************************************)
(* The protocol implements CoherentBlocks: a line is a right on its block, *)
(* a manager's pending request is what its processor has asked for.        *)
(***************************************************************************)
EXTENDS MigratoryProtocolInv

RightOf(l) ==
    IF l.state \in {"EXCLUSIVE", "DIRTY", "MIGRATORY_CLEAN", "MIGRATORY_DIRTY"}
    THEN "write"
    ELSE IF l.valid THEN "read" ELSE "none"

WantOf(req) ==
    CASE req.type = "busRd"  -> [kind |-> "read", addr |-> req.addr]
      [] req.type = "busRdX" -> [kind |-> "write", addr |-> req.addr]
      [] OTHER               -> [kind |-> "none"]

rights == [p \in Proc |-> [a \in Addr |-> RightOf(line[p][a])]]
wants  == [p \in Proc |-> WantOf(pending_request[p])]

Blocks == INSTANCE CoherentBlocks WITH right <- rights, want <- wants

\* Seen from the caches, the messages, acknowledgements, retries and silent
\* evictions of the protocol are a single atomic hand-over of each block: rights
\* appear only where they were asked for and conflict with no other, and vanish
\* only for a processor that asked or for a line that is replaced.
ImplementsCoherentBlocks == Blocks!Spec

=============================================================================
